---- MODULE Spec2Model ----
(***************************************************************************)
(* Task execution engine of ui_test_demo (case_runner.py, mobile_use.py):  *)
(* run_suite schedules the discovered cases on one thread (serial and      *)
(* parallel-fallback) or on one worker thread per pod (parallel);          *)
(* run_one_case drives one case through submit, the poll loop and the      *)
(* verdict; _cancel_task_best_effort / _cancel_all_active_runs cancel the  *)
(* runs that are still registered when a signal, a KeyboardInterrupt, the  *)
(* atexit handler, a timeout or a local exception asks for it.             *)
(*                                                                         *)
(* Threads: 0 is the main thread (run_suite), 1..MaxPods are the pod       *)
(* workers, MaxPods+1 is the "cancel-all" thread the signal handler        *)
(* starts.  The run id of the task submitted for case c is c.              *)
(* Reason texts are English glosses of the source's messages.              *)
(***************************************************************************)
EXTENDS Integers, Sequences, FiniteSets, TLC

\* ---- bounds of the model ------------------------------------------------
MaxCases == 2
MaxPods == 2
\* most poll-loop iterations a case can make before its deadline has passed
\* (timeout_s / poll_interval_s, the sleep being at least 0.5s)
MaxPolls == 5
\* the same for the runs in parallel mode
ParPolls == 1

\* ---- program constants --------------------------------------------------
ProbeEvery == 5

Main == 0
Workers == 1..MaxPods
SweepT == MaxPods + 1
Runners == 0..MaxPods
Threads == 0..(MaxPods + 1)
CaseIds == 0..(MaxCases - 1)
NoCase == -1
Sentinel == -1
NoResp == "None"

VARIABLES
    mode,          \* resolved execution mode: serial | fallback | parallel
    npods,         \* len(pod_ids)
    ncases,        \* len(cases)
    max_polls,     \* iterations after which the deadline has passed
    content,       \* CaseFile.content of each case, already stripped
    shutdown,      \* _shutdown_event
    active,        \* _active_run_ids
    cache,         \* _cancel_task_resp_by_run_id
    q,             \* the shared Queue of parallel mode
    started,       \* per case: number of _run_case_safe calls made for it
    results,       \* results / results2: sequence of <<index, verdict>>
    returned,      \* whether run_suite has returned, and the list it returned
    emitted,       \* number of on_result invocations per case index
    th,            \* per thread: position and locals
    pod_info,      \* per client: _pod_info_cache has an entry for its pod
    remote,        \* the remote task API's view: calls received
    infer,         \* one call of _result_from_resp: its arguments and its result
    call           \* one call of a helper function: its name, argument and result

vars == <<call, infer, mode, npods, ncases, max_polls, content, shutdown, active, cache, q, started,
          results, returned, emitted, th, pod_info, remote>>

\* no helper function is called
NoCall == [fn |-> "", arg |-> <<>>, called |-> FALSE, value |-> <<>>]

NotReturned == [done |-> FALSE, list |-> <<>>]
Returned(list) == [done |-> TRUE, list |-> list]

\* ---- verdicts -----------------------------------------------------------
\* ResultItem.to_dict (mobile_use.py:47-101): the fields the engine decides.
\* case is the case's index (its path, one per index); pod_id is the thread
\* whose client ran it, run_id the run (NoCase when there is none).
Verdict(c, st, rs, pod, run) ==
    [case |-> c, status |-> st, reason |-> rs, pod_id |-> pod, run_id |-> run,
     task_status |-> NoResp, cancel_ok |-> "n/a"]

NoVerdict == Verdict(NoCase, "", "", NoCase, NoCase)

\* case_runner.py:1136-1146 (and 1175-1185, 1240-1250)
SynthSkip(c) ==
    Verdict(c, "skip", "local interruption, not executed", NoCase, NoCase)

\* case_runner.py:727-738
ShutdownAtStartVerdict(c, pod) ==
    Verdict(c, "skip", "local interruption, not executed", pod, NoCase)

\* case_runner.py:756-769
EmptyContentVerdict(c, pod) ==
    Verdict(c, "skip", "case content is empty", pod, NoCase)

\* case_runner.py:790-801
SubmitExceptionVerdict(c, pod) ==
    Verdict(c, "fail", "RunAgentTask call raised", pod, NoCase)

\* case_runner.py:802-814
SubmitInterruptedVerdict(c, pod) ==
    Verdict(c, "skip", "local exit: RunAgentTask call interrupted", pod, NoCase)

\* fault model of the verdict for a missing run id: the case is skipped
NoRunIdSkipped(c, pod) == Verdict(c, "skip", "no run id returned", pod, NoCase)

\* case_runner.py:834-847
NoRunIdVerdict(c, pod) == Verdict(c, "fail", "no run id returned", pod, NoCase)

\* ---- the final-result response (GetAgentResult) -------------------------
\* A response is a record:
\*   Error    "" when there is no top-level error envelope, else its message
\*   Result   "empty" (the response is {}), "absent" (no Result key, the
\*            payload at top level), "null", "dict", "other" (not a mapping)
\*   IsSuccess  -1 when the code is absent or unparseable, else the code
\*   Content  the content text used as a reason ("" when none)
\*   rep_status, rep_reason   what the structured self-report / free-text
\*            inference yields for the payload ("None" / "" when nothing)
Codes == -1..6

Resp(err, res, code, cont, rst, rrs) ==
    [Error |-> err, Result |-> res, IsSuccess |-> code, Content |-> cont,
     rep_status |-> rst, rep_reason |-> rrs]

EmptyResp == Resp("", "empty", -1, "", NoResp, "")

\* case_runner.py:358-382
IsDoneByGetResult(resp) ==
    IF resp.Result = "empty" THEN FALSE
    ELSE IF resp.Error # "" THEN TRUE
    ELSE IF resp.Result = "null" THEN TRUE
    ELSE IF resp.Result = "other" THEN FALSE
    ELSE IF resp.IsSuccess = -1 THEN FALSE
    ELSE resp.IsSuccess # 0

\* case_runner.py:552-600: status and reason from the error envelope and
\* the success code (timeout = FALSE)
CodeStatusReason(resp) ==
    LET top == resp.Error
        st0 == IF top # "" THEN "fail" ELSE "pass"
        rs0 == top
        payloadNone == resp.Result \in {"empty", "null"}
    IN  IF payloadNone
          THEN IF st0 = "pass"
                 THEN <<"fail", "GetAgentResult returned nothing">>
                 ELSE <<st0, rs0>>
        ELSE IF resp.Result = "other"
          THEN <<"fail", IF rs0 # "" THEN rs0 ELSE "GetAgentResult Result has a wrong type">>
        ELSE LET code == resp.IsSuccess
                 cm == resp.Content
             IN  IF code = -1
                   THEN <<"fail", IF rs0 # "" THEN rs0 ELSE "IsSuccess missing or malformed">>
                 ELSE IF code = 0
                   THEN <<"fail", IF rs0 # "" THEN rs0 ELSE "task not completed">>
                 ELSE IF code \in {1, 3}
                   THEN <<st0, rs0>>
                 ELSE IF code = 5
                   THEN <<"skip", IF rs0 # "" THEN rs0
                                  ELSE IF cm # "" THEN cm ELSE "user cancelled">>
                 ELSE <<"fail", IF rs0 # "" THEN rs0
                                ELSE IF cm # "" THEN cm
                                ELSE IF code = 2 THEN "task execution failed"
                                ELSE IF code = 4 THEN "user interrupted"
                                ELSE IF code = 6 THEN "unknown error"
                                ELSE "task failed">>

\* case_runner.py:540-542
TimeoutStatusReason == <<"fail", "timed out waiting for completion">>

\* fault model of the self-report override: the status and reason of the
\* code mapping are kept as they are
KeepCodeStatus(sr, resp) == sr

\* fault model of the self-report override: a self-report of fail or skip
\* replaces the status whatever the code mapping gave
SelfReportOverrides(sr, resp) ==
    LET ist == IF resp.Result \in {"empty", "null", "other"}
               THEN NoResp ELSE resp.rep_status
        irs == IF resp.Result \in {"empty", "null", "other"}
               THEN "" ELSE resp.rep_reason
    IN  IF ist \in {"fail", "skip"}
          THEN <<ist, IF irs # "" THEN irs ELSE sr[2]>>
        ELSE sr

\* case_runner.py:602-608
ApplySelfReport(sr, resp) ==
    LET ist == IF resp.Result \in {"empty", "null", "other"}
               THEN NoResp ELSE resp.rep_status
        irs == IF resp.Result \in {"empty", "null", "other"}
               THEN "" ELSE resp.rep_reason
    IN  IF sr[1] = "pass" /\ ist \in {"fail", "skip"}
          THEN <<ist, IF irs # "" THEN irs ELSE sr[2]>>
        ELSE IF sr[1] \in {"fail", "skip"} /\ irs # "" /\ sr[2] = ""
          THEN <<sr[1], irs>>
        ELSE sr

\* case_runner.py:516-711: status and reason of _result_from_resp
ResultFromResp(resp, timeout) ==
    ApplySelfReport(IF timeout THEN TimeoutStatusReason ELSE CodeStatusReason(resp), resp)

\* ---- the payload as _result_from_resp receives it ------------------------
\* Texts (Content, a StructOutput string) are sequences of tokens: the
\* characters the scanners of the code look at, each a token of its own,
\* and words, runs of other characters.  Whitespace is not modelled.
LBrace == "{"
RBrace == "}"
Quote == "\""
Backslash == "\\"
Colon == ":"
Comma == ","
\* the markers the regular expressions at case_runner.py:480 and 498 look for
FinalStatusMarker == "final-status"
FailureReasonMarker == "failure-reason"
Specials == {LBrace, RBrace, Quote, Backslash, Colon, Comma}

\* str.lower() on the words the inputs use
Lower(w) ==
    IF w = "FAIL" THEN "fail" ELSE IF w = "Skip" THEN "skip"
    ELSE IF w = "Finished" THEN "finished" ELSE w

\* case_runner.py:385-391 (NoResp stands for None)
CoerceCaseStatus(val) ==
    IF val = NoResp THEN NoResp
    ELSE IF Lower(val) \in {"pass", "fail", "skip"} THEN Lower(val)
    ELSE NoResp

\* case_runner.py:77-91.  A raw IsSuccess value is [type, val, digits]:
\* type "none" | "bool" (val 1 for True, 0 for False) | "int" | "str"
\* (digits: str.isdigit() of the stripped string, val its value) | "float".
\* The result is the code, -1 standing for None.
CoerceIsSuccessCode(raw) ==
    IF raw.type = "none" THEN -1
    ELSE IF raw.type = "bool" THEN (IF raw.val = 1 THEN 1 ELSE 0)
    ELSE IF raw.type = "int" THEN raw.val
    ELSE IF raw.type = "str" THEN (IF raw.digits THEN raw.val ELSE -1)
    ELSE -1

NoText == [ok |-> FALSE, text |-> <<>>]
SomeText(s) == [ok |-> TRUE, text |-> s]

\* case_runner.py:400-428: the scan of _extract_json_object from position i;
\* the position of the brace that closes the object, 0 when there is none
RECURSIVE ScanJsonObject(_, _, _, _, _)
ScanJsonObject(text, i, depth, in_string, escaped) ==
    IF i > Len(text) THEN 0
    ELSE LET ch == text[i]
         IN  IF in_string
               THEN IF escaped THEN ScanJsonObject(text, i + 1, depth, TRUE, FALSE)
                    ELSE IF ch = Backslash THEN ScanJsonObject(text, i + 1, depth, TRUE, TRUE)
                    ELSE IF ch = Quote THEN ScanJsonObject(text, i + 1, depth, FALSE, FALSE)
                    ELSE ScanJsonObject(text, i + 1, depth, TRUE, FALSE)
             ELSE IF ch = Quote THEN ScanJsonObject(text, i + 1, depth, TRUE, escaped)
             ELSE IF ch = LBrace THEN ScanJsonObject(text, i + 1, depth + 1, FALSE, escaped)
             ELSE IF ch = RBrace
               THEN IF depth - 1 = 0 THEN i
                    ELSE ScanJsonObject(text, i + 1, depth - 1, FALSE, escaped)
             ELSE ScanJsonObject(text, i + 1, depth, FALSE, escaped)

\* case_runner.py:394-430 (positions count from 1; 0 is "not found")
ExtractJsonObject(text, start_idx) ==
    IF start_idx < 1 \/ start_idx > Len(text) THEN NoText
    ELSE IF text[start_idx] # LBrace THEN NoText
    ELSE LET e == ScanJsonObject(text, start_idx, 0, FALSE, FALSE)
         IN  IF e = 0 THEN NoText ELSE SomeText(SubSeq(text, start_idx, e))

\* json.loads on a text (case_runner.py:440, 448): an object of string
\* members "key":"value" parses to the sequence of its <<key, value>>
\* pairs; every other text of the inputs is not JSON.
IsJsonMember(s, p) ==
    /\ s[p] = Quote /\ s[p + 1] \notin Specials /\ s[p + 2] = Quote
    /\ s[p + 3] = Colon
    /\ s[p + 4] = Quote /\ s[p + 5] \notin Specials /\ s[p + 6] = Quote

IsJsonObject(s) ==
    /\ Len(s) >= 2 /\ s[1] = LBrace /\ s[Len(s)] = RBrace
    /\ \/ Len(s) = 2
       \/ /\ (Len(s) - 1) % 8 = 0
          /\ \A k \in 1..((Len(s) - 1) \div 8) :
               /\ IsJsonMember(s, 8 * k - 6)
               /\ (8 * k + 1 < Len(s)) => s[8 * k + 1] = Comma

NoObj == [ok |-> FALSE, obj |-> <<>>]
SomeObj(o) == [ok |-> TRUE, obj |-> o]

JsonLoads(s) ==
    IF IsJsonObject(s)
      THEN SomeObj([k \in 1..((Len(s) - 1) \div 8) |-> <<s[8 * k - 5], s[8 * k - 1]>>])
      ELSE NoObj

\* str.replace (case_runner.py:446) of the two characters a b by r
RECURSIVE Replace2(_, _, _, _)
Replace2(s, a, b, r) ==
    IF Len(s) = 0 THEN <<>>
    ELSE IF Len(s) >= 2 /\ s[1] = a /\ s[2] = b
      THEN <<r>> \o Replace2(SubSeq(s, 3, Len(s)), a, b, r)
    ELSE <<s[1]>> \o Replace2(Tail(s), a, b, r)

\* case_runner.py:433-453
TryParseJsonObj(s) ==
    IF s = <<>> THEN NoObj
    ELSE IF JsonLoads(s).ok THEN JsonLoads(s)
    ELSE IF \E i \in 1..(Len(s) - 1) : s[i] = Backslash /\ s[i + 1] \in {Quote, "n"}
      THEN JsonLoads(Replace2(Replace2(s, Backslash, Quote, Quote),
                              Backslash, Backslash, Backslash))
    ELSE NoObj

\* dict.get on a parsed object: the value of the last member named key
ObjGet(obj, key) ==
    LET ks == {k \in 1..Len(obj) : obj[k][1] = key}
    IN  IF ks = {} THEN NoResp
        ELSE obj[CHOOSE k \in ks : \A j \in ks : j <= k][2]

\* case_runner.py:458-461 (466-469, 493-496): status and reason of an object
ObjStatusReason(obj) ==
    LET sv == IF ObjGet(obj, "status") # NoResp THEN ObjGet(obj, "status")
              ELSE ObjGet(obj, "Status")
        rv == IF ObjGet(obj, "reason") # NoResp THEN ObjGet(obj, "reason")
              ELSE ObjGet(obj, "Reason")
    IN  <<CoerceCaseStatus(sv), IF rv = NoResp THEN "" ELSE rv>>

\* A StructOutput value is [type, obj, text]: type "none", "dict" (obj its
\* members) or "str" (text its tokens).
NoStruct == [type |-> "none", obj |-> <<>>, text |-> <<>>]
DictStruct(o) == [type |-> "dict", obj |-> o, text |-> <<>>]
StrStruct(s) == [type |-> "str", obj |-> <<>>, text |-> s]

\* case_runner.py:456-471
InferFromStructOutput(so) ==
    IF so.type = "dict" THEN ObjStatusReason(so.obj)
    ELSE IF so.type = "str" /\ so.text # <<>> /\ TryParseJsonObj(so.text).ok
      THEN ObjStatusReason(TryParseJsonObj(so.text).obj)
    ELSE <<NoResp, "">>

\* str.rfind: the last position where pat starts in text, 0 when nowhere
RFind(text, pat) ==
    LET ps == {i \in 1..(Len(text) - Len(pat) + 1) :
                 SubSeq(text, i, i + Len(pat) - 1) = pat}
    IN  IF ps = {} THEN 0 ELSE CHOOSE i \in ps : \A j \in ps : j <= i

\* the anchors of case_runner.py:484 and 486
StatusAnchor == <<LBrace, Quote, "status", Quote>>
EscapedStatusAnchor == <<LBrace, Backslash, Quote, "status", Backslash, Quote>>

\* the characters of a text, as one string
RECURSIVE Join(_)
Join(s) == IF s = <<>> THEN "" ELSE s[1] \o Join(Tail(s))

\* case_runner.py:484-492: the object parsed from the last JSON blob of the
\* content that starts at an anchor, NoObj when there is none
ContentJsonObj(text) ==
    LET a1 == RFind(text, StatusAnchor)
        start == IF a1 > 0 THEN a1 ELSE RFind(text, EscapedStatusAnchor)
        blob == ExtractJsonObject(text, start)
    IN  IF start > 0 /\ blob.ok THEN TryParseJsonObj(blob.text) ELSE NoObj

\* case_runner.py:474-502; an absent, non-string or blank Content is <<>>
InferFromContent(text) ==
    LET ms == {i \in 1..(Len(text) - 2) :
                 /\ text[i] = FinalStatusMarker /\ text[i + 1] = Colon
                 /\ Lower(text[i + 2]) \in {"pass", "fail", "skip"}}
        m2 == {i \in 1..(Len(text) - 2) :
                 text[i] = FailureReasonMarker /\ text[i + 1] = Colon}
    IN  IF text = <<>> THEN <<NoResp, "">>
        ELSE IF ms # {}
          THEN <<CoerceCaseStatus(text[(CHOOSE i \in ms : \A j \in ms : i <= j) + 2]), "">>
        ELSE IF ContentJsonObj(text).ok THEN ObjStatusReason(ContentJsonObj(text).obj)
        ELSE IF m2 # {}
          THEN <<"fail", Join(SubSeq(text, (CHOOSE i \in m2 : \A j \in m2 : i <= j) + 2,
                                     Len(text)))>>
        ELSE <<NoResp, "">>

\* A raw response is [Error, Result, IsSuccess, Content, StructOutput]:
\* Error and Result as in Resp, the other three the payload's fields as
\* they arrive.
RawResp(err, res, code, cont, so) ==
    [Error |-> err, Result |-> res, IsSuccess |-> code, Content |-> cont,
     StructOutput |-> so]

\* case_runner.py:505-513
InferFromResultPayload(raw) ==
    IF raw.Result \notin {"dict", "absent"} THEN <<NoResp, "">>
    ELSE IF InferFromStructOutput(raw.StructOutput)[1] # NoResp
      THEN InferFromStructOutput(raw.StructOutput)
    ELSE InferFromContent(raw.Content)

\* case_runner.py:533-559, 602: what _result_from_resp reads off the payload
DecodeResp(raw) ==
    Resp(raw.Error, raw.Result, CoerceIsSuccessCode(raw.IsSuccess), Join(raw.Content),
         InferFromResultPayload(raw)[1], InferFromResultPayload(raw)[2])

\* case_runner.py:516-711 on the response as it arrives
ResultFromRawResp(raw, timeout) == ResultFromResp(DecodeResp(raw), timeout)

\* ---- the inference on its own -------------------------------------------
\* json.dumps of an object of string members, as the task writes it
JsonMember(kv) == <<Quote, kv[1], Quote, Colon, Quote, kv[2], Quote>>

RECURSIVE JsonMembers(_)
JsonMembers(obj) ==
    IF Len(obj) = 0 THEN <<>>
    ELSE IF Len(obj) = 1 THEN JsonMember(obj[1])
    ELSE JsonMember(obj[1]) \o <<Comma>> \o JsonMembers(Tail(obj))

JsonDumps(obj) == <<LBrace>> \o JsonMembers(obj) \o <<RBrace>>

\* a JSON text embedded in a JSON string: each quote preceded by a backslash
RECURSIVE EscapeQuotes(_)
EscapeQuotes(s) ==
    IF Len(s) = 0 THEN <<>>
    ELSE IF s[1] = Quote THEN <<Backslash, Quote>> \o EscapeQuotes(Tail(s))
    ELSE <<s[1]>> \o EscapeQuotes(Tail(s))

\* a self-report {status, reason}; without a reason when rs is ""
Report(st, rs) ==
    IF rs = "" THEN << <<"status", st>> >> ELSE << <<"status", st>>, <<"reason", rs>> >>

Reports == {Report(st, rs) : st \in {"pass", "fail", "skip"}, rs \in {"", "X"}}

\* objects a StructOutput can hold beside the reports
OtherObjs == { << <<"reason", "X">> >>, << <<"Status", "FAIL">>, <<"Reason", "X">> >> }

StructOutputs ==
    {NoStruct, StrStruct(<<"done">>)}
      \cup {DictStruct(o) : o \in Reports \cup OtherObjs}
      \cup {StrStruct(JsonDumps(o)) : o \in {Report("fail", "X"), Report("skip", "")}}
      \cup {StrStruct(EscapeQuotes(JsonDumps(o))) : o \in {Report("fail", "X"), Report("skip", "")}}

ContentReports == {Report("fail", "X"), Report("fail", ""), Report("skip", "X"), Report("pass", "")}

Contents ==
    {<<>>, <<"done">>, <<FailureReasonMarker, Colon, "X">>,
     JsonDumps(Report("pass", "")) \o <<"then">> \o JsonDumps(Report("skip", "X"))}
      \cup {<<"done", FinalStatusMarker, Colon, st>> : st \in {"pass", "fail", "skip", "FAIL"}}
      \cup {<<"done">> \o JsonDumps(o) : o \in ContentReports}
      \cup {<<"done">> \o EscapeQuotes(JsonDumps(o)) : o \in ContentReports}

RawCode(ty, v, dg) == [type |-> ty, val |-> v, digits |-> dg]
NoRawCode == RawCode("none", 0, FALSE)
MaxCode == 7
RawCodes ==
    {NoRawCode, RawCode("bool", 1, FALSE), RawCode("bool", 0, FALSE),
     RawCode("str", 1, TRUE), RawCode("str", 5, TRUE), RawCode("str", 0, FALSE),
     RawCode("float", 1, FALSE)}
      \cup {RawCode("int", k, FALSE) : k \in 0..MaxCode}

EnvelopeMessages == {"", "E"}

\* the responses the inference is run against: a payload under Result or at
\* top level with every combination of its fields, and the responses
\* without a payload
RawResps ==
    {RawResp(e, r, k, ct, so) : e \in EnvelopeMessages, r \in {"dict", "absent"},
                                k \in RawCodes, ct \in Contents, so \in StructOutputs}
      \cup {RawResp(e, r, NoRawCode, <<>>, NoStruct) : e \in EnvelopeMessages,
                                                       r \in {"null", "other"}}
      \cup {RawResp("", "empty", NoRawCode, <<>>, NoStruct)}

\* no call of _result_from_resp is being looked at
NoInference ==
    [resp |-> RawResp("", "empty", NoRawCode, <<>>, NoStruct), timeout |-> FALSE,
     called |-> FALSE, status |-> "", reason |-> ""]


\* ---- inputs the collaborators can produce -------------------------------
ErrorResp == Resp("E", "null", -1, "", NoResp, "")
CodeResp(k) == Resp("", "dict", k, "", NoResp, "")

\* responses of GetAgentResult the state machine is run against
\* (mobile_use.py:255-268 over _do_call_universal, 155-205)
ResultResps == {EmptyResp, ErrorResp, CodeResp(0), CodeResp(1)}

\* what one ListAgentRunCurrentStep poll yields after _extract_current_step_signal
\* (case_runner.py:135-198): "error" is an error envelope or an empty
\* response, "running" a step list without a completion signal, "raise" a
\* local exception while the payload is scanned (case_runner.py:109-132)
StepOutcomes == {"raise", "error", "running", "finished", "request_user"}

\* cancel_task_raw always returns a mapping (mobile_use.py:322-331, 155-205):
\* "ok" carries a Result, "error" is the error envelope (Result null)
CancelTaskRawResps == {"ok", "error"}

SubmitOutcomes == {"run_id", "empty", "raise"}

\* The parallel configurations draw the collaborators' answers from smaller
\* sets: two lifecycles run side by side there, and the scheduling, not the
\* variety of one lifecycle, is what those configurations are for.
StepOutcomesIn(m) == IF m = "parallel" THEN {"running", "finished"} ELSE StepOutcomes
ResultRespsIn(m) == IF m = "parallel" THEN {CodeResp(1)} ELSE ResultResps
CancelRespsIn(m) == IF m = "parallel" THEN {"ok"} ELSE CancelTaskRawResps
SubmitOutcomesIn(m) == IF m = "parallel" THEN {"run_id"} ELSE SubmitOutcomes
ContentsIn(m) == IF m = "parallel" THEN {"text"} ELSE {"", "text"}

OpKinds == {"submit", "poll", "fetch", "cancel", "meta"}

\* ---- helpers ------------------------------------------------------------
Cases == 0..(ncases - 1)

\* the pod a thread's client is bound to (case_runner.py:1115-1117, 1204;
\* mobile_use.py:120): NoCase is the empty pod id
Pod(t) == IF npods = 0 THEN NoCase ELSE IF t = Main THEN 1 ELSE t

\* fault model of the lookup: the empty pod id is queried as well
NeedsDetailPodForAnyId(t) == ~pod_info[t]

\* mobile_use.py:333-340: the lookup reaches DetailPod only for a non-empty
\* pod id that the client has not looked up before
NeedsDetailPod(t) == Pod(t) # NoCase /\ ~pod_info[t]

\* mobile_use.py:333-373, called for case c by the client of thread t
GetPodImageInfo(r, t, c) ==
    IF NeedsDetailPod(t)
      THEN [r EXCEPT !.detail_pod_calls[t] = @ + 1, !.ops[c] = @ \cup {"meta"}]
      ELSE r

PodInfoAfter(t) == [pod_info EXCEPT ![t] = @ \/ Pod(t) # NoCase]

RemoteOp(r, c, kind) == [r EXCEPT !.ops[c] = @ \cup {kind}]

RemoteSubmit(r, c) ==
    [r EXCEPT !.submit_calls[c] = @ + 1, !.ops[c] = @ \cup {"submit"}]

RemoteCancel(r, c) ==
    [r EXCEPT !.cancel_calls[c] = @ + 1, !.ops[c] = @ \cup {"cancel"}]

\* case_runner.py:272-282
ExtractCancelSummary(resp) == IF resp = "ok" THEN "true" ELSE "false"

\* case_runner.py:875-879 (947-951, 971-975, 994-998)
Annotate(v, sig, cresp) ==
    [v EXCEPT !.task_status = IF sig # NoResp THEN sig ELSE @,
              !.cancel_ok = ExtractCancelSummary(cresp)]

\* fault model of the completion path: the verdict is inferred from an
\* empty response instead of the fetched one
CompletedVerdictOfNothing(c, pod, resp, sig) ==
    LET sr == ResultFromResp(EmptyResp, FALSE)
    IN  [Verdict(c, sr[1], sr[2], pod, c) EXCEPT
            !.task_status = IF sig # NoResp THEN sig ELSE @]

\* case_runner.py:898-911 (920-933)
CompletedVerdict(c, pod, resp, sig) ==
    LET sr == ResultFromResp(resp, FALSE)
    IN  [Verdict(c, sr[1], sr[2], pod, c) EXCEPT
            !.task_status = IF sig # NoResp THEN sig ELSE @]

\* case_runner.py:864-874
ShutdownCancelledVerdict(c, pod) ==
    Verdict(c, "skip", "local interruption, cancellation issued", pod, c)

\* case_runner.py:938-946
TimedOutVerdict(c, pod, last) ==
    LET sr == ResultFromResp(last, TRUE)
    IN  Verdict(c, sr[1], sr[2], pod, c)

\* case_runner.py:959-970
LocalExceptionVerdict(c, pod) == Verdict(c, "fail", "local exception", pod, c)

\* case_runner.py:982-993
LocalExitVerdict(c, pod) == Verdict(c, "skip", "local exit", pod, c)

\* list.sort(key=index) (case_runner.py:1150, 1233, 1254): stable insertion
RECURSIVE InsertByIndex(_, _)
InsertByIndex(s, e) ==
    IF s = <<>> THEN <<e>>
    ELSE IF s[Len(s)][1] <= e[1] THEN Append(s, e)
    ELSE Append(InsertByIndex(SubSeq(s, 1, Len(s) - 1), e), s[Len(s)])

RECURSIVE SortByIndex(_)
SortByIndex(s) ==
    IF s = <<>> THEN <<>>
    ELSE InsertByIndex(SortByIndex(SubSeq(s, 1, Len(s) - 1)), s[Len(s)])

\* [r for _, r in results]
Verdicts(s) == [k \in 1..Len(s) |-> s[k][2]]

\* {idx for idx, _ in results}
DoneSet(s) == {s[k][1] : k \in 1..Len(s)}

\* the synthesized entries for the cases not in done, in case order
\* (case_runner.py:1133-1148)
RECURSIVE SynthFrom(_, _)
SynthFrom(c, done) ==
    IF c >= ncases THEN <<>>
    ELSE IF c \in done THEN SynthFrom(c + 1, done)
    ELSE <<(<<c, SynthSkip(c)>>)>> \o SynthFrom(c + 1, done)

EmitAll(e, done) ==
    [c \in CaseIds |-> IF c < ncases /\ c \notin done THEN e[c] + 1 ELSE e[c]]

\* fault model of the mode resolution: 'parallel' stays parallel whatever the
\* number of pods
ResolveModeNoFallback(exec_mode, n) ==
    IF exec_mode = "auto" THEN (IF n > 1 THEN "parallel" ELSE "serial") ELSE exec_mode

\* mode resolution (case_runner.py:1023-1029, 1114, 1153)
ResolveMode(exec_mode, n) ==
    LET m == IF exec_mode = "auto"
             THEN (IF n > 1 THEN "parallel" ELSE "serial")
             ELSE exec_mode
    IN  IF m = "serial" THEN "serial"
        ELSE IF n <= 1 THEN "fallback" ELSE "parallel"

\* case_runner.py:201 and 204: the two module locks; a thread record's lock
\* field is the set of locks the thread holds
RegistryLock == "_active_run_ids_lock"
CancelLock == "_cancel_task_resp_lock"
ResultsLock == "lock"
ProgressLock == "progress_lock"
NoLock == {}

Idle ==
    [pc |-> "idle", c |-> NoCase, probe_polls |-> 0, last_step_signal |-> NoResp,
     last_resp |-> EmptyResp, ctx |-> "", cancel_resp |-> NoResp, rid |-> NoCase,
     todo |-> {}, out |-> NoVerdict, i |-> 0, done |-> {}, lock |-> NoLock]

Alive == th[Main].pc # "exited"

Set(t, r) == th' = [th EXCEPT ![t] = r]

\* where run_one_case returns to: results.append in run_suite
AfterCase == "append"

\* ---- initial state ------------------------------------------------------
Init ==
    /\ npods \in 0..MaxPods
    /\ \E em \in {"auto", "serial", "parallel"} : mode = ResolveMode(em, npods)
    /\ ncases \in 0..MaxCases
    /\ max_polls = IF mode = "parallel" THEN ParPolls ELSE MaxPolls
    /\ content \in [CaseIds -> ContentsIn(mode)]
    /\ \A c \in CaseIds : c >= ncases => content[c] = "text"
    /\ infer = NoInference
    /\ call = NoCall
    /\ shutdown = FALSE
    /\ active = {}
    /\ cache = [c \in CaseIds |-> NoResp]
    /\ q = <<>>
    /\ started = [c \in CaseIds |-> 0]
    /\ results = <<>>
    /\ returned = NotReturned
    /\ emitted = [c \in CaseIds |-> 0]
    /\ th = [t \in Threads |-> IF t = Main THEN [Idle EXCEPT !.pc = "rs_start"] ELSE Idle]
    /\ pod_info = [t \in Runners |-> FALSE]
    /\ remote = [submit_calls |-> [c \in CaseIds |-> 0],
                 cancel_calls |-> [c \in CaseIds |-> 0],
                 ops |-> [c \in CaseIds |-> {}],
                 detail_pod_calls |-> [t \in Runners |-> 0]]

\* ---- run_suite: entry and the serial loop --------------------------------
\* case_runner.py:1013-1029, 1114-1119, 1153-1158, 1192-1222: after
\* discovery and mode resolution; in parallel mode the queue is filled with
\* the cases and one sentinel per pod and the workers are started
RunSuiteStart ==
    /\ th[Main].pc = "rs_start"
    /\ IF ncases = 0
         THEN /\ returned' = Returned(<<>>)
              /\ Set(Main, [th[Main] EXCEPT !.pc = "returned"])
              /\ q' = q
         ELSE IF mode = "parallel"
         THEN /\ q' = [k \in 1..(ncases + npods) |-> IF k <= ncases THEN k - 1 ELSE Sentinel]
              /\ th' = [t \in Threads |->
                          IF t = Main THEN [th[t] EXCEPT !.pc = "p_join"]
                          ELSE IF t \in 1..npods THEN [th[t] EXCEPT !.pc = "w_top"]
                          ELSE th[t]]
              /\ returned' = returned
         ELSE /\ Set(Main, [th[Main] EXCEPT !.pc = "s_loop"])
              /\ UNCHANGED <<q, returned>>
    /\ UNCHANGED <<started, call, infer, mode, npods, ncases, max_polls, content, shutdown, active, cache, results,
                   emitted, pod_info, remote>>

\* case_runner.py:1121-1124 (1160-1163): the head of the for loop
SerialLoop ==
    /\ th[Main].pc = "s_loop"
    /\ IF shutdown \/ th[Main].i >= ncases
         THEN Set(Main, [th[Main] EXCEPT !.pc = "s_post"])
         ELSE Set(Main, [th[Main] EXCEPT !.pc = "roc_start", !.c = th[Main].i,
                                         !.i = @ + 1])
    /\ started' = IF shutdown \/ th[Main].i >= ncases THEN started
                  ELSE [started EXCEPT ![th[Main].i] = @ + 1]
    /\ UNCHANGED <<call, infer, mode, npods, ncases, max_polls, content, shutdown, active, cache, q, results,
                   returned, emitted, pod_info, remote>>

\* ---- the pod worker of parallel mode ------------------------------------
\* fault model of the queue: an item is read without being removed
QueuePeek(qq) == <<Head(qq), qq>>

\* Queue.get (case_runner.py:1208): the head of the queue, removed
QueueGet(qq) == <<Head(qq), Tail(qq)>>

\* case_runner.py:1205-1213: the head of the worker's loop.  The shutdown
\* flag ends the worker; otherwise it takes the next item, a case or the
\* sentinel that ends it (the queue holds one sentinel per worker, so a
\* running worker never finds it empty).
WorkerGet(t) ==
    /\ t \in Workers /\ Alive
    /\ th[t].pc = "w_top"
    /\ IF shutdown
         THEN /\ Set(t, [th[t] EXCEPT !.pc = "w_done"])
              /\ UNCHANGED <<q, started>>
         ELSE LET g == QueueGet(q)
              IN  /\ q # <<>>
                  /\ q' = g[2]
                  /\ IF g[1] = Sentinel
                       THEN /\ Set(t, [th[t] EXCEPT !.pc = "w_done"])
                            /\ started' = started
                       ELSE /\ Set(t, [th[t] EXCEPT !.pc = "roc_start", !.c = g[1]])
                            /\ started' = [started EXCEPT ![g[1]] = @ + 1]
    /\ UNCHANGED <<call, infer, mode, npods, ncases, max_polls, content, shutdown, active, cache, results,
                   returned, emitted, pod_info, remote>>

\* ---- run_one_case -------------------------------------------------------
\* case_runner.py:727-769: the head of run_one_case, where stop is what the
\* shutdown check at 727 reads and empty what the content check at 740 finds
RocStartWith(t, stop, empty) ==
    /\ t \in Runners /\ Alive
    /\ th[t].pc = "roc_start"
    /\ LET c == th[t].c
       IN  IF stop
             THEN /\ Set(t, [th[t] EXCEPT !.pc = AfterCase,
                                          !.out = ShutdownAtStartVerdict(c, Pod(t))])
                  /\ UNCHANGED <<pod_info, remote>>
           ELSE IF empty
             THEN /\ Set(t, [th[t] EXCEPT !.pc = AfterCase,
                                          !.out = EmptyContentVerdict(c, Pod(t))])
                  /\ remote' = GetPodImageInfo(remote, t, c)
                  /\ pod_info' = PodInfoAfter(t)
           ELSE /\ Set(t, [th[t] EXCEPT !.pc = "roc_submit"])
                /\ UNCHANGED <<pod_info, remote>>
    /\ UNCHANGED <<started, call, infer, mode, npods, ncases, max_polls, content, shutdown, active, cache, q, results,
                   returned, emitted>>

\* fault models of the head of run_one_case: the shutdown check, or the
\* content check, is missing
RocStartIgnoringShutdown(t) == RocStartWith(t, FALSE, content[th[t].c] = "")
RocStartIgnoringContent(t) == RocStartWith(t, shutdown, FALSE)

\* case_runner.py:727-769: the shutdown check and the empty-content case
RocStart(t) == RocStartWith(t, shutdown, content[th[t].c] = "")

\* case_runner.py:785-847: submit; an exception or no run id ends the case
RocSubmit(t) ==
    /\ t \in Runners /\ Alive
    /\ th[t].pc = "roc_submit"
    /\ \E o \in SubmitOutcomesIn(mode) :
         LET c == th[t].c
         IN  IF o = "run_id"
               THEN /\ Set(t, [th[t] EXCEPT !.pc = "roc_register"])
                    /\ remote' = RemoteSubmit(remote, c)
                    /\ pod_info' = pod_info
             ELSE IF o = "empty"
               THEN /\ Set(t, [th[t] EXCEPT !.pc = AfterCase,
                                            !.out = NoRunIdVerdict(c, Pod(t))])
                    /\ remote' = GetPodImageInfo(RemoteSubmit(remote, c), t, c)
                    /\ pod_info' = PodInfoAfter(t)
             ELSE /\ Set(t, [th[t] EXCEPT !.pc = AfterCase,
                                          !.out = SubmitExceptionVerdict(c, Pod(t))])
                  /\ remote' = RemoteSubmit(remote, c)
                  /\ pod_info' = pod_info
    /\ UNCHANGED <<started, call, infer, mode, npods, ncases, max_polls, content, shutdown, active, cache, q, results,
                   returned, emitted>>

\* case_runner.py:211-216
RegisterActiveRunId(a, rid) == a \cup {rid}

\* case_runner.py:219-224
UnregisterActiveRunId(a, rid) == a \ {rid}

\* case_runner.py:849-858
RocRegister(t) ==
    /\ t \in Runners /\ Alive
    /\ th[t].pc = "roc_register"
    /\ active' = RegisterActiveRunId(active, th[t].c)
    /\ Set(t, [th[t] EXCEPT !.pc = "loop", !.probe_polls = 0,
                            !.last_step_signal = NoResp, !.last_resp = EmptyResp])
    /\ UNCHANGED <<started, call, infer, mode, npods, ncases, max_polls, content, shutdown, cache, q, results,
                   returned, emitted, pod_info, remote>>

\* case_runner.py:860-954: one iteration of the poll loop.  The shutdown flag
\* is read once, at the top; the rest of the iteration (step-trace poll, the
\* final fetch when the trace reports completion, the periodic probe, the
\* deadline check and the sleep) touches only this run and this thread.
\* The deadline has passed after max_polls iterations at the latest.
\* stop is what the shutdown check at 861 reads.
PollIterationWith(t, stop) ==
    /\ t \in Runners /\ Alive
    /\ th[t].pc = "loop"
    /\ LET c == th[t].c
           Completed(resp, sig, last) ==
             /\ Set(t, [th[t] EXCEPT !.pc = "roc_unreg", !.probe_polls = 0,
                          !.last_step_signal = NoResp, !.last_resp = EmptyResp,
                          !.out = CompletedVerdict(c, Pod(t), resp, sig)])
             /\ pod_info' = PodInfoAfter(t)
       IN  IF stop
             \* 861-862
             THEN /\ Set(t, [th[t] EXCEPT !.pc = "c_check", !.ctx = "shutdown", !.rid = c,
                                          !.probe_polls = 0, !.last_resp = EmptyResp])
                  /\ UNCHANGED <<pod_info, remote>>
           ELSE \E o \in StepOutcomesIn(mode) :
             IF o = "raise"
               \* 956-957
               THEN /\ Set(t, [th[t] EXCEPT !.pc = "c_check", !.ctx = "exc", !.rid = c,
                                            !.probe_polls = 0, !.last_resp = EmptyResp])
                    /\ remote' = RemoteOp(remote, c, "poll")
                    /\ pod_info' = pod_info
             ELSE
               LET stepDone == o \in {"finished", "request_user"}
                   \* 883-888
                   sig == IF stepDone THEN o ELSE th[t].last_step_signal
                   r1 == RemoteOp(remote, c, "poll")
               IN  \E final \in IF stepDone THEN ResultRespsIn(mode) ELSE {EmptyResp} :
                     LET last1 == IF stepDone /\ final.Result # "empty"
                                  THEN final ELSE th[t].last_resp
                         r2 == IF stepDone THEN RemoteOp(r1, c, "fetch") ELSE r1
                     IN  IF stepDone /\ IsDoneByGetResult(final)
                           \* 890-911
                           THEN /\ Completed(final, sig, last1)
                                /\ remote' = GetPodImageInfo(r2, t, c)
                         ELSE
                           \* 913-933
                           LET n == th[t].probe_polls + 1
                               probing == n % ProbeEvery = 0
                           IN  \E probe \in IF probing THEN ResultRespsIn(mode) ELSE {EmptyResp} :
                                 LET last2 == IF probing /\ probe.Result # "empty"
                                              THEN probe ELSE last1
                                     r3 == IF probing THEN RemoteOp(r2, c, "fetch") ELSE r2
                                     loc == [th[t] EXCEPT !.probe_polls = n,
                                               !.last_step_signal = sig, !.last_resp = last2]
                                 IN  IF probing /\ IsDoneByGetResult(probe)
                                       THEN /\ Completed(probe, sig, last2)
                                            /\ remote' = GetPodImageInfo(r3, t, c)
                                     ELSE
                                       \* 935-954
                                       /\ \E passed \in BOOLEAN :
                                            /\ n >= max_polls => passed
                                            /\ IF passed
                                                 THEN Set(t, [loc EXCEPT !.pc = "c_check",
                                                          !.ctx = "timeout", !.rid = c,
                                                          !.probe_polls = 0])
                                                 ELSE Set(t, loc)
                                       /\ remote' = r3
                                       /\ pod_info' = pod_info
    /\ UNCHANGED <<started, call, infer, mode, npods, ncases, max_polls, content, shutdown, active, cache, q,
                   results, returned, emitted>>

\* fault model of the poll loop: the shutdown check at its head is missing
PollIterationIgnoringShutdown(t) == PollIterationWith(t, FALSE)

\* case_runner.py:860-954
PollIteration(t) == PollIterationWith(t, shutdown)

\* ---- _cancel_task_best_effort -------------------------------------------
\* case_runner.py:235-240
GetCancelTaskResp(cch, rid) == cch[rid]

\* case_runner.py:227-232
RememberCancelTaskResp(cch, rid, resp) ==
    IF resp = NoResp THEN cch ELSE [cch EXCEPT ![rid] = resp]

SweepCtxs == {"sig", "kbi", "atexit"}

\* where _cancel_task_best_effort returns to: the sweep's loop, or the
\* lifecycle's verdict
AfterCancel(ctx) == IF ctx \in SweepCtxs THEN "sw_loop" ELSE "roc_out"

\* case_runner.py:248-250: the thread with locals rec enters
\* _cancel_task_best_effort for rec.rid; a cached response is replayed and
\* returned, otherwise the remote call is next
CheckCache(rec) ==
    LET cached == GetCancelTaskResp(cache, rec.rid)
    IN  IF cached # NoResp
          THEN [rec EXCEPT !.pc = AfterCancel(rec.ctx), !.cancel_resp = cached]
          ELSE [rec EXCEPT !.pc = "c_remote"]

\* the cancel of a lifecycle exit (case_runner.py:862, 937, 957, 980)
CancelCheckCache(t) ==
    /\ t \in Runners /\ Alive
    /\ th[t].pc = "c_check"
    /\ Set(t, CheckCache(th[t]))
    /\ UNCHANGED <<started, call, infer, mode, npods, ncases, max_polls, content, shutdown, active, cache, q, results,
                   returned, emitted, pod_info, remote>>

\* case_runner.py:252-263: the remote CancelTask call; its response is
\* remembered and returned
CancelRemote(t) ==
    /\ t \in Threads /\ Alive
    /\ th[t].pc = "c_remote"
    /\ \E resp \in CancelRespsIn(mode) :
         /\ Set(t, [th[t] EXCEPT !.pc = AfterCancel(th[t].ctx), !.cancel_resp = resp])
         /\ cache' = RememberCancelTaskResp(cache, th[t].rid, resp)
    /\ remote' = RemoteCancel(remote, th[t].rid)
    /\ UNCHANGED <<started, call, infer, mode, npods, ncases, max_polls, content, shutdown, active, q, results,
                   returned, emitted, pod_info>>

\* ---- run_one_case: the exits that cancel ---------------------------------
\* the verdict of the exit that cancelled, by the reason of the cancel:
\* shutdown (case_runner.py:864-880), timeout (938-952), an ordinary
\* exception (959-976), an interrupt-class exception (982-999)
CancelExitVerdict(ctx, c, pod, last, sig, cresp) ==
    Annotate(IF ctx = "shutdown" THEN ShutdownCancelledVerdict(c, pod)
             ELSE IF ctx = "timeout" THEN TimedOutVerdict(c, pod, last)
             ELSE IF ctx = "exc" THEN LocalExceptionVerdict(c, pod)
             ELSE LocalExitVerdict(c, pod),
             sig, cresp)

\* the verdict is built (case_runner.py:864-880, 938-952, 959-976, 982-999),
\* then the finally clause unregisters the run (1001-1002) and the verdict
\* is returned
RocOut(t) ==
    /\ t \in Runners /\ Alive
    /\ th[t].pc = "roc_out"
    /\ LET c == th[t].c
       IN  /\ Set(t, [Idle EXCEPT !.pc = AfterCase, !.c = c, !.i = th[t].i,
                        !.out = CancelExitVerdict(th[t].ctx, c, Pod(t), th[t].last_resp,
                                   th[t].last_step_signal, th[t].cancel_resp)])
           /\ IF th[t].ctx \in {"shutdown", "timeout"}
                THEN /\ remote' = GetPodImageInfo(remote, t, c)
                     /\ pod_info' = PodInfoAfter(t)
                ELSE UNCHANGED <<pod_info, remote>>
    /\ active' = UnregisterActiveRunId(active, th[t].c)
    /\ UNCHANGED <<started, call, infer, mode, npods, ncases, max_polls, content, shutdown, cache, q, results,
                   returned, emitted>>

\* case_runner.py:1001-1002: the finally clause after a completed verdict
\* (898-911, 920-933), then the return
RocUnregister(t) ==
    /\ t \in Runners /\ Alive
    /\ th[t].pc = "roc_unreg"
    /\ active' = UnregisterActiveRunId(active, th[t].c)
    /\ Set(t, [th[t] EXCEPT !.pc = AfterCase])
    /\ UNCHANGED <<started, call, infer, mode, npods, ncases, max_polls, content, shutdown, cache, q, results,
                   returned, emitted, pod_info, remote>>

\* ---- back in run_suite: the result is recorded and emitted -----------------
\* fault model of the recording: the verdict is dropped and the loop goes on
DropResult(t) ==
    /\ t \in Runners /\ Alive
    /\ th[t].pc = "append"
    /\ Set(t, [th[t] EXCEPT !.pc = "emit"])
    /\ UNCHANGED <<started, call, infer, mode, npods, ncases, max_polls, content, shutdown, active, cache, q,
                   results, returned, emitted, pod_info, remote>>

\* case_runner.py:1125 (1164, 1216-1217)
AppendResult(t) ==
    /\ t \in Runners /\ Alive
    /\ th[t].pc = "append"
    /\ results' = Append(results, <<th[t].c, th[t].out>>)
    /\ Set(t, [th[t] EXCEPT !.pc = "emit"])
    /\ UNCHANGED <<started, call, infer, mode, npods, ncases, max_polls, content, shutdown, active, cache, q,
                   returned, emitted, pod_info, remote>>

\* case_runner.py:1126 (1165, 1218) with _emit_result, 1044-1070
EmitResult(t) ==
    /\ t \in Runners /\ Alive
    /\ th[t].pc = "emit"
    /\ emitted' = [emitted EXCEPT ![th[t].c] = @ + 1]
    /\ Set(t, [Idle EXCEPT !.pc = IF t = Main THEN "s_loop" ELSE "w_top",
                           !.i = th[t].i])
    /\ UNCHANGED <<started, call, infer, mode, npods, ncases, max_polls, content, shutdown, active, cache, q, results,
                   returned, pod_info, remote>>

\* ---- _cancel_all_active_runs ----------------------------------------------
\* case_runner.py:293-297: the snapshot of the registry
SweepSnapshot(t) ==
    /\ t \in {Main, SweepT} /\ Alive
    /\ th[t].pc = "sw_snap"
    /\ Set(t, [th[t] EXCEPT !.pc = "sw_loop", !.todo = active])
    /\ UNCHANGED <<started, call, infer, mode, npods, ncases, max_polls, content, shutdown, active, cache, q, results,
                   returned, emitted, pod_info, remote>>

\* where the sweep returns to: the end of the cancel-all thread, process exit
\* after atexit, or run_suite after its KeyboardInterrupt handler
\* (case_runner.py:1127-1131, 1227-1231)
AfterSweep(ctx) ==
    IF ctx = "sig" THEN "sw_done"
    ELSE IF ctx = "atexit" THEN "exited"
    ELSE IF mode = "parallel" THEN "p_join_to" ELSE "s_post"

\* case_runner.py:301-302: the next run id of the snapshot, in the list's
\* order, and the entry into its cancel
SweepNext(t) ==
    /\ t \in {Main, SweepT} /\ Alive
    /\ th[t].pc = "sw_loop"
    /\ IF th[t].todo = {}
         THEN Set(t, [th[t] EXCEPT !.pc = AfterSweep(th[t].ctx), !.rid = NoCase,
                                   !.cancel_resp = NoResp])
         ELSE \E r \in th[t].todo :
                Set(t, CheckCache([th[t] EXCEPT !.rid = r, !.todo = @ \ {r}]))
    /\ UNCHANGED <<started, call, infer, mode, npods, ncases, max_polls, content, shutdown, active, cache, q, results,
                   returned, emitted, pod_info, remote>>

\* ---- run_suite: after the loop ----------------------------------------------
\* case_runner.py:1131-1151 (1170-1190): synthesized skips, sort, return
SerialPost ==
    /\ th[Main].pc = "s_post"
    /\ LET done == DoneSet(results)
           all == IF shutdown THEN results \o SynthFrom(0, done) ELSE results
       IN  /\ results' = SortByIndex(all)
           /\ returned' = Returned(Verdicts(SortByIndex(all)))
           /\ emitted' = IF shutdown THEN EmitAll(emitted, done) ELSE emitted
    /\ Set(Main, [th[Main] EXCEPT !.pc = "returned"])
    /\ UNCHANGED <<started, call, infer, mode, npods, ncases, max_polls, content, shutdown, active, cache, q,
                   pod_info, remote>>

\* case_runner.py:1224-1226: every worker thread has ended
ParJoin ==
    /\ th[Main].pc = "p_join"
    /\ \A t \in 1..npods : th[t].pc = "w_done"
    /\ Set(Main, [th[Main] EXCEPT !.pc = "p_sort"])
    /\ UNCHANGED <<started, call, infer, mode, npods, ncases, max_polls, content, shutdown, active, cache, q, results,
                   returned, emitted, pod_info, remote>>

\* a worker that is inside a remote call or the sleep between polls
\* (case_runner.py:785, 883-954, 259)
WorkerBlocked(t) == th[t].pc \in {"roc_submit", "loop", "c_remote"}

\* case_runner.py:1230-1231: join(timeout=1.0) on every worker returns when
\* the worker has ended, or after a second that the worker has spent inside
\* a remote call or the sleep between polls
ParJoinTimeout ==
    /\ th[Main].pc = "p_join_to"
    /\ \A t \in 1..npods : th[t].pc = "w_done" \/ WorkerBlocked(t)
    /\ Set(Main, [th[Main] EXCEPT !.pc = "p_sort"])
    /\ UNCHANGED <<started, call, infer, mode, npods, ncases, max_polls, content, shutdown, active, cache, q,
                   results, returned, emitted, pod_info, remote>>

\* case_runner.py:1233-1236
ParSort ==
    /\ th[Main].pc = "p_sort"
    /\ results' = SortByIndex(results)
    /\ IF shutdown
         THEN Set(Main, [th[Main] EXCEPT !.pc = "p_synth",
                                         !.done = DoneSet(SortByIndex(results))])
         ELSE Set(Main, [th[Main] EXCEPT !.pc = "p_return"])
    /\ UNCHANGED <<started, call, infer, mode, npods, ncases, max_polls, content, shutdown, active, cache, q,
                   returned, emitted, pod_info, remote>>

\* case_runner.py:1237-1254: the synthesized skips for the cases not in
\* done, appended and emitted, and the second sort
ParSynth ==
    /\ th[Main].pc = "p_synth"
    /\ results' = SortByIndex(results \o SynthFrom(0, th[Main].done))
    /\ emitted' = EmitAll(emitted, th[Main].done)
    /\ Set(Main, [th[Main] EXCEPT !.pc = "p_return", !.done = {}])
    /\ UNCHANGED <<started, call, infer, mode, npods, ncases, max_polls, content, shutdown, active, cache, q,
                   returned, pod_info, remote>>

\* case_runner.py:1256
ParReturn ==
    /\ th[Main].pc = "p_return"
    /\ returned' = Returned(Verdicts(results))
    /\ Set(Main, [th[Main] EXCEPT !.pc = "returned"])
    /\ UNCHANGED <<started, call, infer, mode, npods, ncases, max_polls, content, shutdown, active, cache, q, results,
                   emitted, pod_info, remote>>

\* case_runner.py:313-320 with 293-294: at process exit, after run_suite
\* returned or raised, the flag is given the value flag (set() at 315 makes
\* it TRUE) and the sweep takes its snapshot
AtExitWith(flag) ==
    /\ th[Main].pc \in {"returned", "crashed"}
    /\ shutdown' = flag
    /\ Set(Main, [th[Main] EXCEPT !.pc = "sw_loop", !.ctx = "atexit", !.todo = active])
    /\ UNCHANGED <<started, call, infer, mode, npods, ncases, max_polls, content, active, cache, q, results,
                   returned, emitted, pod_info, remote>>

\* fault model of the exit handler: it leaves the flag cleared
AtExitClearingFlag == AtExitWith(FALSE)

\* case_runner.py:313-320: _shutdown_event.set() at 315
AtExit == AtExitWith(TRUE)

\* ---- signals ------------------------------------------------------------
\* A KeyboardInterrupt raised in the main thread at its current position
\* (the handler has started the cancel-all thread first):
\*  - outside run_suite's try blocks it leaves run_suite (1114-1120,
\*    1131-1151, 1192-1223, 1233-1256);
\*  - in the serial loop or the join, and in run_one_case outside its own
\*    try blocks, run_suite's handler takes it (1127-1129, 1227-1229);
\*  - in the submit call, run_one_case's handler at 802-814 takes it;
\*  - in the poll loop (856-954), the handler at 978-999 takes it;
\*  - in the handler of an ordinary exception (956-976) or in the finally
\*    clause (1001-1002) it leaves run_one_case after the finally clause.
\* A remote call that is interrupted may or may not have reached the remote.
KeyboardInterrupt ==
    LET M == th[Main]
        c == M.c
        Spawned == [Idle EXCEPT !.pc = "sw_snap", !.ctx = "sig"]
        To(m2) == th' = [th EXCEPT ![Main] = m2, ![SweepT] = Spawned]
        Handler == [Idle EXCEPT !.pc = "sw_snap", !.ctx = "kbi", !.i = M.i]
        BaseExc == [M EXCEPT !.pc = "c_check", !.ctx = "baseexc", !.rid = c,
                             !.cancel_resp = NoResp, !.probe_polls = 0,
                             !.last_resp = EmptyResp]
        MaybeCancel == IF M.pc = "c_remote" THEN {remote, RemoteCancel(remote, M.rid)}
                       ELSE {remote}
        InCancelExit == M.pc \in {"c_check", "c_remote", "roc_out"}
    IN  \/ /\ M.pc \in {"rs_start", "s_post", "p_sort", "p_return"}
           /\ To([M EXCEPT !.pc = "crashed"])
           /\ UNCHANGED <<active, remote>>
        \/ /\ M.pc \in {"returned", "crashed"}
           /\ To(M)
           /\ UNCHANGED <<active, remote>>
        \/ /\ M.pc \in {"s_loop", "append", "emit", "roc_start", "p_join"}
           /\ To(Handler)
           /\ UNCHANGED <<active, remote>>
        \/ /\ M.pc = "roc_submit"
           /\ To([M EXCEPT !.pc = AfterCase,
                           !.out = SubmitInterruptedVerdict(c, Pod(Main))])
           /\ active' = active
           /\ remote' \in {remote, RemoteSubmit(remote, c)}
        \/ /\ M.pc = "roc_register"
           /\ To(Handler)
           /\ remote' = remote
           /\ active' \in {active, RegisterActiveRunId(active, c)}
        \/ /\ M.pc = "loop"
           /\ To(BaseExc)
           /\ UNCHANGED <<active, remote>>
        \/ /\ InCancelExit /\ M.ctx = "timeout"
           /\ To(BaseExc)
           /\ active' = active
           /\ remote' \in MaybeCancel
        \/ /\ InCancelExit /\ M.ctx = "timeout" /\ M.pc = "roc_out"
           /\ To(Handler)
           /\ remote' = remote
           /\ active' \in {active, UnregisterActiveRunId(active, c)}
        \/ /\ InCancelExit /\ M.ctx = "exc"
           /\ To(Handler)
           /\ active' = UnregisterActiveRunId(active, c)
           /\ remote' \in MaybeCancel
        \/ /\ M.pc = "roc_unreg"
           /\ To(Handler)
           /\ remote' = remote
           /\ active' \in {active, UnregisterActiveRunId(active, c)}

Signals == {"SIGINT", "SIGTERM"}

\* case_runner.py:322-331: _signal_handler, run in the main thread, where
\* is_set is what the check at 324 reads.  With the flag set the handler
\* returns at once and changes nothing.
SignalHandlerWith(sig, is_set) ==
    /\ sig \in Signals /\ Alive
    /\ ~is_set
    /\ shutdown' = TRUE
    /\ IF sig = "SIGINT"
         THEN KeyboardInterrupt
         ELSE /\ th' = [th EXCEPT ![SweepT] = [Idle EXCEPT !.pc = "sw_snap", !.ctx = "sig"]]
              /\ UNCHANGED <<active, remote>>
    /\ UNCHANGED <<started, call, infer, mode, npods, ncases, max_polls, content, cache, q, results,
                   returned, emitted, pod_info>>

\* fault model of the handler: the check of the flag is missing
SignalHandlerIgnoringFlag(sig) == SignalHandlerWith(sig, FALSE)

\* case_runner.py:322-331
SignalHandler(sig) == SignalHandlerWith(sig, shutdown)

\* ---- the specification ----------------------------------------------------
Next ==
    \/ RunSuiteStart
    \/ SerialLoop
    \/ SerialPost
    \/ ParJoin
    \/ ParJoinTimeout
    \/ ParSort
    \/ ParSynth
    \/ ParReturn
    \/ AtExit
    \/ \E t \in Workers : WorkerGet(t)
    \/ \E t \in Runners : RocStart(t)
    \/ \E t \in Runners : RocSubmit(t)
    \/ \E t \in Runners : RocRegister(t)
    \/ \E t \in Runners : PollIteration(t)
    \/ \E t \in Runners : RocOut(t)
    \/ \E t \in Runners : RocUnregister(t)
    \/ \E t \in Runners : AppendResult(t)
    \/ \E t \in Runners : EmitResult(t)
    \/ \E t \in Runners : CancelCheckCache(t)
    \/ \E t \in Threads : CancelRemote(t)
    \/ \E t \in {Main, SweepT} : SweepSnapshot(t)
    \/ \E t \in {Main, SweepT} : SweepNext(t)
    \/ \E sig \in Signals : SignalHandler(sig)

Spec == Init /\ [][Next]_vars

\* ---- the specification of the verdict inference -------------------------
\* One call of _result_from_resp (case_runner.py:516-711) on a response and
\* a timeout flag drawn from the inputs; nothing else runs.
InitInfer ==
    /\ \E r \in RawResps, b \in BOOLEAN :
         infer = [NoInference EXCEPT !.resp = r, !.timeout = b]
    /\ call = NoCall
    /\ mode = "serial" /\ npods = 0 /\ ncases = 0 /\ max_polls = MaxPolls
    /\ content = [c \in CaseIds |-> "text"]
    /\ shutdown = FALSE
    /\ active = {}
    /\ cache = [c \in CaseIds |-> NoResp]
    /\ q = <<>>
    /\ started = [c \in CaseIds |-> 0]
    /\ results = <<>>
    /\ returned = NotReturned
    /\ emitted = [c \in CaseIds |-> 0]
    /\ th = [t \in Threads |-> Idle]
    /\ pod_info = [t \in Runners |-> FALSE]
    /\ remote = [submit_calls |-> [c \in CaseIds |-> 0],
                 cancel_calls |-> [c \in CaseIds |-> 0],
                 ops |-> [c \in CaseIds |-> {}],
                 detail_pod_calls |-> [t \in Runners |-> 0]]

ResultFromRespCall ==
    /\ ~infer.called
    /\ LET out == ResultFromRawResp(infer.resp, infer.timeout)
       IN  infer' = [infer EXCEPT !.called = TRUE, !.status = out[1], !.reason = out[2]]
    /\ UNCHANGED <<call, mode, npods, ncases, max_polls, content, shutdown, active, cache, q,
                   started, results, returned, emitted, th, pod_info, remote>>

NextInfer == ResultFromRespCall

SpecInfer == InitInfer /\ [][NextInfer]_vars

\* ---- the step-trace completion check --------------------------------------
\* A response of ListAgentRunCurrentStep is a JSON value: None, a string (a
\* sequence of tokens, Space standing for whitespace), a number, a list, or a
\* mapping (its items, <<key, value>>, in insertion order).
PyNone == [type |-> "none"]
PyStr(toks) == [type |-> "str", text |-> toks]
PyInt(n) == [type |-> "int", val |-> n]
PyList(elems) == [type |-> "list", elems |-> elems]
PyDict(items) == [type |-> "dict", items |-> items]

Space == " "
\* the marker case_runner.py:96 and 115 look for
RequestUserMarker == "request_user"

\* bool(v)
Truthy(v) ==
    CASE v.type = "none" -> FALSE
      [] v.type = "str" -> v.text # <<>>
      [] v.type = "int" -> v.val # 0
      [] v.type = "list" -> v.elems # <<>>
      [] v.type = "dict" -> v.items # <<>>

\* k in d
HasKey(d, k) == \E i \in 1..Len(d.items) : d.items[i][1] = k

\* d.get(k)
DictGet(d, k) ==
    IF HasKey(d, k)
      THEN d.items[CHOOSE i \in 1..Len(d.items) : d.items[i][1] = k][2]
    ELSE PyNone

\* bool(text.strip())
NonBlank(text) == \E i \in 1..Len(text) : text[i] # Space

\* text.strip()
Strip(text) ==
    IF ~NonBlank(text) THEN <<>>
    ELSE LET ks == {i \in 1..Len(text) : text[i] # Space}
             lo == CHOOSE i \in ks : \A j \in ks : i <= j
             hi == CHOOSE i \in ks : \A j \in ks : j <= i
         IN  SubSeq(text, lo, hi)

\* the first position from j on that holds no whitespace (\s* of the
\* regular expression at case_runner.py:100)
SkipSpaces(text, j) ==
    LET ks == {k \in j..Len(text) : text[k] # Space}
    IN  IF ks = {} THEN Len(text) + 1 ELSE CHOOSE k \in ks : \A l \in ks : k <= l

\* case_runner.py:100: the regular expression
\* request_user['"]?\s*[::]\s*['"]([^'"]+)['"] tried at position i; Quote
\* stands for either quote character
MatchRequestUserAt(text, i) ==
    LET j1 == IF i + 1 <= Len(text) /\ text[i + 1] = Quote THEN i + 2 ELSE i + 1
        j2 == SkipSpaces(text, j1)
        j3 == SkipSpaces(text, j2 + 1)
        closes == {k \in (j3 + 1)..Len(text) : text[k] = Quote}
        k == CHOOSE k \in closes : \A l \in closes : k <= l
    IN  IF /\ text[i] = RequestUserMarker
           /\ j2 <= Len(text) /\ text[j2] = Colon
           /\ j3 <= Len(text) /\ text[j3] = Quote
           /\ closes # {} /\ k > j3 + 1
          THEN [ok |-> TRUE, group |-> SubSeq(text, j3 + 1, k - 1)]
        ELSE [ok |-> FALSE, group |-> <<>>]

\* case_runner.py:93-106, whether the value it returns is truthy
ExtractRequestUserFromText(text) ==
    IF text = <<>> THEN FALSE
    ELSE IF ~\E i \in 1..Len(text) : text[i] = RequestUserMarker THEN FALSE
    ELSE LET ms == {i \in 1..Len(text) : MatchRequestUserAt(text, i).ok}
             m == CHOOSE i \in ms : \A j \in ms : i <= j
         IN  IF ms # {} THEN NonBlank(MatchRequestUserAt(text, m).group)
             ELSE TRUE

\* case_runner.py:109-132, whether the value it returns is truthy
RECURSIVE FindRequestUserInObj(_)
FindRequestUserInObj(obj) ==
    CASE obj.type = "none" -> FALSE
      [] obj.type = "str" -> ExtractRequestUserFromText(obj.text)
      [] obj.type = "dict" ->
           LET v == DictGet(obj, RequestUserMarker)
           IN  IF HasKey(obj, RequestUserMarker) /\ v.type = "str" /\ NonBlank(v.text)
                 THEN TRUE
               ELSE IF HasKey(obj, RequestUserMarker) /\ v.type # "none"
                 \* 119-120: str(v), and no look at the other values
                 THEN v.type = "str" => v.text # <<>>
               ELSE \E i \in 1..Len(obj.items) : FindRequestUserInObj(obj.items[i][2])
      [] obj.type = "list" ->
           \E i \in 1..Len(obj.elems) : FindRequestUserInObj(obj.elems[i])
      [] OTHER -> FALSE

\* case_runner.py:157: str(it.get("Action") or "").strip().lower(); the
\* text of a value that is not a string is no action name
StepAction(it) ==
    LET a == DictGet(it, "Action")
    IN  IF ~Truthy(a) THEN <<>>
        ELSE IF a.type = "str" THEN [i \in 1..Len(Strip(a.text)) |-> Lower(Strip(a.text)[i])]
        ELSE <<"repr">>

NoSignal == <<FALSE, NoResp>>

\* case_runner.py:153-196: the loop over the step entries, from entry i on
RECURSIVE ScanSteps(_, _)
ScanSteps(steps, i) ==
    IF i > Len(steps) THEN NoSignal
    ELSE LET it == steps[i]
         IN  IF it.type # "dict" THEN ScanSteps(steps, i + 1)
             ELSE IF StepAction(it) = <<"finished">> THEN <<TRUE, "finished">>
             ELSE IF StepAction(it) = <<"request_user">> THEN <<TRUE, "request_user">>
             ELSE IF FindRequestUserInObj(it) THEN <<TRUE, "request_user">>
             ELSE ScanSteps(steps, i + 1)

\* case_runner.py:135-198: <<done, signal>>
ExtractCurrentStepSignal(resp) ==
    IF resp.type # "dict" \/ resp.items = <<>> THEN NoSignal
    ELSE IF Truthy(DictGet(resp, "Error")) THEN NoSignal
    ELSE LET payload == IF DictGet(resp, "Result").type = "dict"
                        THEN DictGet(resp, "Result") ELSE resp
             steps == IF Truthy(DictGet(payload, "Results"))
                        THEN DictGet(payload, "Results") ELSE DictGet(payload, "results")
         IN  IF steps.type # "list" \/ steps.elems = <<>>
               THEN IF FindRequestUserInObj(payload) THEN <<TRUE, "request_user">>
                    ELSE NoSignal
             ELSE ScanSteps(steps.elems, 1)

\* ---- the inputs of the completion check -----------------------------------
MaxSteps == 2

\* texts that hold the marker: request_user: 'ask', request_user: ' ' and
\* the marker in running text
MarkerTexts ==
    {<<RequestUserMarker, Colon, Quote, "ask", Quote>>,
     <<RequestUserMarker, Colon, Quote, Space, Quote>>,
     <<"need", Space, RequestUserMarker>>}

PlainTexts == {<<>>, <<"hello">>}

\* values stored under the key request_user
MarkerValues == {PyNone, PyStr(<<>>), PyStr(<<Space>>), PyStr(<<"ask">>), PyInt(0)}

\* values of a field of a step entry or of the payload: texts, a mapping
\* with the marker as a key, the marker two levels down, and the marker key
\* with an empty value next to a text that holds the marker
FieldValues ==
    {PyStr(t) : t \in MarkerTexts \cup PlainTexts}
      \cup {PyDict(<< <<RequestUserMarker, v>> >>) : v \in MarkerValues}
      \cup {PyDict(<< <<"content", PyStr(<<"hello">>)>>,
                      <<"steps", PyList(<<PyDict(<< <<RequestUserMarker, PyStr(<<"ask">>)>> >>)>>)>> >>),
            PyDict(<< <<RequestUserMarker, PyStr(<<>>)>>,
                      <<"more", PyStr(<<"need", Space, RequestUserMarker>>)>> >>)}

ActionValues ==
    {PyNone, PyStr(<<"finished">>), PyStr(<<Space, "Finished", Space>>),
     PyStr(<<"request_user">>), PyStr(<<"click">>)}

\* the item <<k, v>> of a mapping, none when the value is absent
Item(k, v) == IF v = PyNone THEN <<>> ELSE << <<k, v>> >>

StepEntries ==
    {PyDict(Item("Action", a) \o Item("Param", p)) :
       a \in ActionValues, p \in FieldValues \cup {PyNone}}
      \cup {PyStr(<<"need", Space, RequestUserMarker>>), PyNone}

StepLists == UNION {[1..n -> StepEntries] : n \in 0..MaxSteps}

StepPayloads ==
    {PyDict(Item(k, PyList(l)) \o Item("Message", m)) :
       k \in {"Results", "results"}, l \in StepLists,
       m \in {PyNone, PyStr(<<"need", Space, RequestUserMarker>>),
              PyDict(<< <<RequestUserMarker, PyStr(<<"ask">>)>> >>)}}
      \cup {PyDict(Item("Message", m)) : m \in FieldValues}

\* responses of ListAgentRunCurrentStep (mobile_use.py:295-320 over
\* _do_call_universal, 155-205): the payload under Result or at the top
\* level, the error envelope, an empty mapping
StepResps ==
    {PyDict(<< <<"Result", pl>> >>) : pl \in StepPayloads}
      \cup StepPayloads
      \cup {PyDict(<< <<"Error", PyStr(<<"E">>)>>, <<"Result", PyNone>> >>), PyDict(<<>>)}

\* ---- the specification of the completion check ----------------------------
\* the engine itself is at rest
NothingRuns ==
    /\ infer = NoInference
    /\ mode = "serial" /\ npods = 0 /\ ncases = 0 /\ max_polls = MaxPolls
    /\ content = [c \in CaseIds |-> "text"]
    /\ shutdown = FALSE
    /\ active = {}
    /\ cache = [c \in CaseIds |-> NoResp]
    /\ q = <<>>
    /\ started = [c \in CaseIds |-> 0]
    /\ results = <<>>
    /\ returned = NotReturned
    /\ emitted = [c \in CaseIds |-> 0]
    /\ th = [t \in Threads |-> Idle]
    /\ pod_info = [t \in Runners |-> FALSE]
    /\ remote = [submit_calls |-> [c \in CaseIds |-> 0],
                 cancel_calls |-> [c \in CaseIds |-> 0],
                 ops |-> [c \in CaseIds |-> {}],
                 detail_pod_calls |-> [t \in Runners |-> 0]]

\* One call of _extract_current_step_signal (case_runner.py:135-198) on a
\* response drawn from the inputs; nothing else runs.
InitSignal ==
    /\ \E r \in StepResps :
         call = [fn |-> "_extract_current_step_signal", arg |-> r,
                 called |-> FALSE, value |-> NoSignal]
    /\ NothingRuns

ExtractCurrentStepSignalCall ==
    /\ call.fn = "_extract_current_step_signal" /\ ~call.called
    /\ call' = [call EXCEPT !.called = TRUE, !.value = ExtractCurrentStepSignal(call.arg)]
    /\ UNCHANGED <<infer, mode, npods, ncases, max_polls, content, shutdown, active, cache, q,
                   started, results, returned, emitted, th, pod_info, remote>>

NextSignal == ExtractCurrentStepSignalCall

SpecSignal == InitSignal /\ [][NextSignal]_vars

\* ---- the specification of the locks ---------------------------------------
\* The functions that take a lock (case_runner.py:211-240, 291-297), one
\* step per lock acquisition and one for the body of the with block and the
\* release, run by the lifecycle threads, the signal handler and the
\* cancel-all sweeps.  Thread t runs the lifecycle of one run: run 0 on the
\* main thread in serial mode, run t-1 on worker t in parallel mode.  The
\* verdicts are left out.
LockRunners == IF mode = "serial" THEN {Main} ELSE {t \in Workers : t - 1 < ncases}

RunIdOf(t) == IF mode = "serial" THEN 0 ELSE t - 1

\* Lock.acquire() returns: no thread holds lock l
Free(l) == \A u \in Threads : l \notin th[u].lock

\* a thread is inside a call of the remote API
InRemoteCall(t) == th[t].pc \in {"lk_poll", "lk_cancel"}

\* a thread is in time.sleep (case_runner.py:954)
Sleeping(t) == th[t].pc = "lk_sleep"

InitLocks ==
    /\ call = NoCall /\ infer = NoInference
    /\ mode \in {"serial", "parallel"}
    /\ ncases \in 1..MaxCases
    /\ npods = IF mode = "serial" THEN 0 ELSE MaxPods
    /\ max_polls = MaxPolls
    /\ content = [c \in CaseIds |-> "text"]
    /\ shutdown = FALSE
    /\ active = {}
    /\ cache = [c \in CaseIds |-> NoResp]
    /\ q = <<>>
    /\ started = [c \in CaseIds |-> 0]
    /\ results = <<>>
    /\ returned = NotReturned
    /\ emitted = [c \in CaseIds |-> 0]
    /\ th = [t \in Threads |->
               IF t \in LockRunners
                 THEN [Idle EXCEPT !.pc = "lk_start", !.c = RunIdOf(t), !.rid = RunIdOf(t)]
               ELSE Idle]
    /\ pod_info = [t \in Runners |-> FALSE]
    /\ remote = [submit_calls |-> [c \in CaseIds |-> 0],
                 cancel_calls |-> [c \in CaseIds |-> 0],
                 ops |-> [c \in CaseIds |-> {}],
                 detail_pod_calls |-> [t \in Runners |-> 0]]

\* what no step of these functions changes
LockFrame ==
    UNCHANGED <<call, infer, mode, npods, ncases, max_polls, content, q, started, results,
                returned, emitted, pod_info>>

\* with l: the lock is taken
Acquire(t, from, l, to) ==
    /\ th[t].pc = from /\ Free(l)
    /\ Set(t, [th[t] EXCEPT !.pc = to, !.lock = @ \cup {l}])

\* case_runner.py:215
RegisterAcquire(t) ==
    /\ t \in Runners
    /\ Acquire(t, "lk_start", RegistryLock, "lk_reg")
    /\ LockFrame /\ UNCHANGED <<shutdown, active, cache, remote>>

\* case_runner.py:216
RegisterRelease(t) ==
    /\ t \in Runners /\ th[t].pc = "lk_reg"
    /\ active' = RegisterActiveRunId(active, th[t].rid)
    /\ Set(t, [th[t] EXCEPT !.pc = "lk_loop", !.lock = @ \ {RegistryLock}])
    /\ LockFrame /\ UNCHANGED <<shutdown, cache, remote>>

\* case_runner.py:860-883: the head of the poll loop
LoopTop(t) ==
    /\ t \in Runners /\ th[t].pc = "lk_loop"
    /\ Set(t, [th[t] EXCEPT !.pc = IF shutdown THEN "lk_get" ELSE "lk_poll"])
    /\ LockFrame /\ UNCHANGED <<shutdown, active, cache, remote>>

\* case_runner.py:883-954: the poll call returns; the iteration goes on to
\* the sleep, completes, or leaves for a cancel (timeout, exception)
PollReturn(t) ==
    /\ t \in Runners /\ th[t].pc = "lk_poll"
    /\ remote' = RemoteOp(remote, th[t].rid, "poll")
    /\ \E to \in {"lk_sleep", "lk_unreg", "lk_get"} : Set(t, [th[t] EXCEPT !.pc = to])
    /\ LockFrame /\ UNCHANGED <<shutdown, active, cache>>

\* case_runner.py:954
Wake(t) ==
    /\ t \in Runners /\ th[t].pc = "lk_sleep"
    /\ Set(t, [th[t] EXCEPT !.pc = "lk_loop"])
    /\ LockFrame /\ UNCHANGED <<shutdown, active, cache, remote>>

\* where _cancel_task_best_effort returns to: the sweep's loop, or the
\* lifecycle's finally clause
AfterCancelLocked(ctx) == IF ctx = "sweep" THEN "lk_sweep" ELSE "lk_unreg"

\* case_runner.py:239
GetCachedAcquire(t) ==
    /\ t \in Threads
    /\ Acquire(t, "lk_get", CancelLock, "lk_get_in")
    /\ LockFrame /\ UNCHANGED <<shutdown, active, cache, remote>>

\* case_runner.py:240, 248-250
GetCachedRelease(t) ==
    /\ t \in Threads /\ th[t].pc = "lk_get_in"
    /\ LET cached == GetCancelTaskResp(cache, th[t].rid)
       IN  Set(t, [th[t] EXCEPT !.lock = @ \ {CancelLock},
                                !.pc = IF cached # NoResp THEN AfterCancelLocked(th[t].ctx)
                                       ELSE "lk_cancel"])
    /\ LockFrame /\ UNCHANGED <<shutdown, active, cache, remote>>

\* case_runner.py:259-260: the CancelTask call returns
CancelReturn(t) ==
    /\ t \in Threads /\ th[t].pc = "lk_cancel"
    /\ remote' = RemoteCancel(remote, th[t].rid)
    /\ \E resp \in CancelTaskRawResps :
         Set(t, [th[t] EXCEPT !.pc = "lk_rem", !.cancel_resp = resp])
    /\ LockFrame /\ UNCHANGED <<shutdown, active, cache>>

\* case_runner.py:231
RememberAcquire(t) ==
    /\ t \in Threads
    /\ Acquire(t, "lk_rem", CancelLock, "lk_rem_in")
    /\ LockFrame /\ UNCHANGED <<shutdown, active, cache, remote>>

\* case_runner.py:232
RememberRelease(t) ==
    /\ t \in Threads /\ th[t].pc = "lk_rem_in"
    /\ cache' = RememberCancelTaskResp(cache, th[t].rid, th[t].cancel_resp)
    /\ Set(t, [th[t] EXCEPT !.lock = @ \ {CancelLock}, !.pc = AfterCancelLocked(th[t].ctx),
                            !.cancel_resp = NoResp])
    /\ LockFrame /\ UNCHANGED <<shutdown, active, remote>>

\* case_runner.py:223
UnregisterAcquire(t) ==
    /\ t \in Runners
    /\ Acquire(t, "lk_unreg", RegistryLock, "lk_unreg_in")
    /\ LockFrame /\ UNCHANGED <<shutdown, active, cache, remote>>

\* case_runner.py:224
UnregisterRelease(t) ==
    /\ t \in Runners /\ th[t].pc = "lk_unreg_in"
    /\ active' = UnregisterActiveRunId(active, th[t].rid)
    /\ Set(t, [th[t] EXCEPT !.pc = "lk_done", !.lock = @ \ {RegistryLock}])
    /\ LockFrame /\ UNCHANGED <<shutdown, cache, remote>>

\* case_runner.py:293
SnapshotAcquire(t) ==
    /\ t \in Threads
    /\ Acquire(t, "lk_snap", RegistryLock, "lk_snap_in")
    /\ LockFrame /\ UNCHANGED <<shutdown, active, cache, remote>>

\* fault model of the sweep: the runs are cancelled inside the with block
SnapshotKeepLock(t) ==
    /\ t \in Threads /\ th[t].pc = "lk_snap_in"
    /\ Set(t, [th[t] EXCEPT !.pc = "lk_sweep", !.ctx = "sweep", !.todo = active])
    /\ LockFrame /\ UNCHANGED <<shutdown, active, cache, remote>>

\* case_runner.py:294: the snapshot is taken and the lock released
SnapshotRelease(t) ==
    /\ t \in Threads /\ th[t].pc = "lk_snap_in"
    /\ Set(t, [th[t] EXCEPT !.pc = "lk_sweep", !.ctx = "sweep", !.todo = active,
                            !.lock = @ \ {RegistryLock}])
    /\ LockFrame /\ UNCHANGED <<shutdown, active, cache, remote>>

\* case_runner.py:296-302: the next run of the snapshot is cancelled
LockedSweepNext(t) ==
    /\ t \in Threads /\ th[t].pc = "lk_sweep"
    /\ IF th[t].todo = {}
         THEN Set(t, [th[t] EXCEPT !.pc = "lk_swept"])
       ELSE LET rid == CHOOSE r \in th[t].todo : \A r2 \in th[t].todo : r <= r2
            IN  Set(t, [th[t] EXCEPT !.pc = "lk_get", !.rid = rid, !.todo = @ \ {rid}])
    /\ LockFrame /\ UNCHANGED <<shutdown, active, cache, remote>>

\* case_runner.py:1216 (1125 in serial mode, where the list has no lock):
\* run_one_case has returned and its verdict is appended
ResultAppendAcquire(t) ==
    /\ t \in Runners
    /\ IF mode = "parallel"
         THEN Acquire(t, "lk_done", ResultsLock, "lk_app_in")
         ELSE th[t].pc = "lk_done" /\ Set(t, [th[t] EXCEPT !.pc = "lk_callback"])
    /\ LockFrame /\ UNCHANGED <<shutdown, active, cache, remote>>

\* fault model of the worker: _emit_result is called inside the with block
ResultAppendKeepLock(t) ==
    /\ t \in Runners /\ th[t].pc = "lk_app_in"
    /\ Set(t, [th[t] EXCEPT !.pc = "lk_callback"])
    /\ LockFrame /\ UNCHANGED <<shutdown, active, cache, remote>>

\* case_runner.py:1217-1218: the append is done, the lock released and
\* _emit_result called, which calls on_result (1047-1049)
ResultAppendRelease(t) ==
    /\ t \in Runners /\ th[t].pc = "lk_app_in"
    /\ Set(t, [th[t] EXCEPT !.pc = "lk_callback", !.lock = @ \ {ResultsLock}])
    /\ LockFrame /\ UNCHANGED <<shutdown, active, cache, remote>>

\* case_runner.py:1131-1148 (1235-1252): after its sweep the scheduler
\* emits a synthesized verdict
SynthEmit(t) ==
    /\ t = Main /\ th[t].pc = "lk_swept"
    /\ Set(t, [th[t] EXCEPT !.pc = "lk_callback"])
    /\ LockFrame /\ UNCHANGED <<shutdown, active, cache, remote>>

\* case_runner.py:1049-1053: on_result returns, or raises an Exception
\* that is logged, and the progress lock is taken
ProgressAcquire(t) ==
    /\ t \in Runners
    /\ Acquire(t, "lk_callback", ProgressLock, "lk_prog_in")
    /\ LockFrame /\ UNCHANGED <<shutdown, active, cache, remote>>

\* case_runner.py:1054-1070: the counters are updated, the progress line
\* logged and the lock released
ProgressRelease(t) ==
    /\ t \in Runners /\ th[t].pc = "lk_prog_in"
    /\ Set(t, [th[t] EXCEPT !.pc = "lk_end", !.lock = @ \ {ProgressLock}])
    /\ LockFrame /\ UNCHANGED <<shutdown, active, cache, remote>>

\* where a KeyboardInterrupt raised in the main thread at pc takes it; a
\* with block it leaves releases its lock.  Outside run_one_case's try
\* (849, 1001-1002) and in parallel mode run_suite's handler cancels all
\* runs (1127-1129, 1227-1229); inside the try the handler at 978-980
\* cancels the run; inside a cancel, either of the two, by where the cancel
\* was called from.
InterruptTargets(pc) ==
    IF pc \in {"lk_loop", "lk_poll", "lk_sleep"} THEN {"lk_get"}
    ELSE IF pc \in {"lk_get", "lk_get_in", "lk_cancel", "lk_rem", "lk_rem_in"}
      THEN {"lk_get", "lk_unreg"}
    ELSE {"lk_snap"}

\* case_runner.py:322-331: _signal_handler in the main thread
LockedSignalHandler(sig) ==
    /\ sig \in Signals
    /\ ~shutdown
    /\ th[Main].pc # "lk_swept"
    /\ shutdown' = TRUE
    /\ LET sweep == [Idle EXCEPT !.pc = "lk_snap"]
       IN  IF sig = "SIGINT"
             THEN \E to \in InterruptTargets(th[Main].pc) :
                    th' = [th EXCEPT ![SweepT] = sweep,
                                     ![Main] = [th[Main] EXCEPT !.pc = to, !.lock = NoLock,
                                                                !.cancel_resp = NoResp]]
           ELSE th' = [th EXCEPT ![SweepT] = sweep]
    /\ LockFrame /\ UNCHANGED <<active, cache, remote>>

NextLocks ==
    \/ \E t \in Threads :
         \/ RegisterAcquire(t) \/ RegisterRelease(t)
         \/ LoopTop(t) \/ PollReturn(t) \/ Wake(t)
         \/ GetCachedAcquire(t) \/ GetCachedRelease(t)
         \/ CancelReturn(t)
         \/ RememberAcquire(t) \/ RememberRelease(t)
         \/ UnregisterAcquire(t) \/ UnregisterRelease(t)
         \/ SnapshotAcquire(t) \/ SnapshotRelease(t)
         \/ LockedSweepNext(t)
    \/ \E sig \in Signals : LockedSignalHandler(sig)

SpecLocks == InitLocks /\ [][NextLocks]_vars

\* ---- the specification of the locks, with the result list and progress ----
\* The lifecycle's locks together with the two locks of run_suite
\* (case_runner.py:1038, 1200).  A runner's run_one_case either has a run
\* of its own and goes through the registry (lk_start), or has returned
\* before it submitted one (case_runner.py:727-769, 785-847) and goes on
\* to the recording of its verdict (lk_done).  MaxLockedRuns bounds the
\* number of runners that have a run.
MaxLockedRuns == 1

InitEmitLocks ==
    /\ call = NoCall /\ infer = NoInference
    /\ mode \in {"serial", "parallel"}
    /\ ncases \in 1..MaxCases
    /\ npods = IF mode = "serial" THEN 0 ELSE MaxPods
    /\ max_polls = MaxPolls
    /\ content = [c \in CaseIds |-> "text"]
    /\ shutdown = FALSE
    /\ active = {}
    /\ cache = [c \in CaseIds |-> NoResp]
    /\ q = <<>>
    /\ started = [c \in CaseIds |-> 0]
    /\ results = <<>>
    /\ returned = NotReturned
    /\ emitted = [c \in CaseIds |-> 0]
    /\ \E with_run \in SUBSET LockRunners :
         /\ Cardinality(with_run) <= MaxLockedRuns
         /\ th = [t \in Threads |->
                    IF t \in with_run
                      THEN [Idle EXCEPT !.pc = "lk_start", !.c = RunIdOf(t),
                                        !.rid = RunIdOf(t)]
                    ELSE IF t \in LockRunners
                      THEN [Idle EXCEPT !.pc = "lk_done", !.c = RunIdOf(t)]
                    ELSE Idle]
    /\ pod_info = [t \in Runners |-> FALSE]
    /\ remote = [submit_calls |-> [c \in CaseIds |-> 0],
                 cancel_calls |-> [c \in CaseIds |-> 0],
                 ops |-> [c \in CaseIds |-> {}],
                 detail_pod_calls |-> [t \in Runners |-> 0]]

NextEmitLocks ==
    \/ NextLocks
    \/ \E t \in Threads :
         \/ ResultAppendAcquire(t) \/ ResultAppendRelease(t)
         \/ SynthEmit(t)
         \/ ProgressAcquire(t) \/ ProgressRelease(t)

SpecEmitLocks == InitEmitLocks /\ [][NextEmitLocks]_vars

\* ---- the specification of the result item ---------------------------------
\* what the lookup of the pod metadata does inside _result_from_resp
\* (case_runner.py:672-682 over mobile_use.py:333-373): DetailPod answers
\* with the pod's image ("ok") or with an error envelope ("error"), the call
\* raises inside the helper ("raise", caught at mobile_use.py:369), or the
\* helper itself raises ("helper_raises", caught at case_runner.py:681)
LookupOutcomes == {"ok", "error", "raise", "helper_raises"}

NoImage == [aosp_version |-> NoResp, image_name |-> NoResp, image_id |-> NoResp]

PodImage == [aosp_version |-> "13", image_name |-> "img", image_id |-> "img-1"]

\* mobile_use.py:333-373: the info the helper returns
PodImageInfoOf(outcome) == IF outcome = "ok" THEN PodImage ELSE NoImage

\* fault model of the result item: an exception of the lookup is not caught
\* and run_one_case's handler turns it into a fail verdict
ResultItemLookupFatal(raw, timeout, lookup) ==
    IF lookup = "helper_raises"
      THEN [status |-> "fail", reason |-> "local exception", image |-> NoImage]
    ELSE [status |-> ResultFromRawResp(raw, timeout)[1],
          reason |-> ResultFromRawResp(raw, timeout)[2],
          image |-> PodImageInfoOf(lookup)]

\* case_runner.py:516-711: status and reason (552-608) and the pod
\* metadata (669-682) of the item _result_from_resp returns
ResultItemFromRawResp(raw, timeout, lookup) ==
    [status |-> ResultFromRawResp(raw, timeout)[1],
     reason |-> ResultFromRawResp(raw, timeout)[2],
     image |-> IF lookup = "helper_raises" THEN NoImage ELSE PodImageInfoOf(lookup)]

NoItem == [status |-> "", reason |-> "", image |-> NoImage]

\* One call of _result_from_resp on a response, a timeout flag and a
\* behaviour of the client's lookup drawn from the inputs; nothing else runs.
InitItem ==
    /\ \E r \in RawResps, b \in BOOLEAN, l \in LookupOutcomes :
         call = [fn |-> "_result_from_resp",
                 arg |-> [resp |-> r, timeout |-> b, lookup |-> l],
                 called |-> FALSE, value |-> NoItem]
    /\ NothingRuns

ResultItemCall ==
    /\ call.fn = "_result_from_resp" /\ ~call.called
    /\ call' = [call EXCEPT !.called = TRUE,
                  !.value = ResultItemFromRawResp(call.arg.resp, call.arg.timeout,
                                                  call.arg.lookup)]
    /\ UNCHANGED <<infer, mode, npods, ncases, max_polls, content, shutdown, active, cache, q,
                   started, results, returned, emitted, th, pod_info, remote>>

NextItem == ResultItemCall

SpecItem == InitItem /\ [][NextItem]_vars

\* ---- the specification of the pod metadata lookup -------------------------
\* The lookups of one process: thread t's client (MobileUseClient, one per
\* run_suite in serial mode, case_runner.py:1117, and one per entry of the
\* pod list in parallel mode, 1204) looks up the pod it was built for, and
\* a later run_suite builds its clients anew.  The pod list is the parsed
\* POD_ID_LIST (case_runner.py:39-40), in which a pod may occur twice.
PodIds == 1..MaxPods

\* most DetailPod calls per pod the lookups are followed for
MaxDetailPodCalls == 2

NoEntry == [hit |-> FALSE, info |-> NoImage]

Entry(info) == [hit |-> TRUE, info |-> info]

\* per pod: the DetailPod calls made, the first info obtained and the info
\* the latest lookup returned; per client: its _pod_info_cache entry
NoLookups ==
    [calls |-> [p \in PodIds |-> 0],
     first |-> [p \in PodIds |-> NoEntry],
     last |-> [p \in PodIds |-> NoEntry],
     cache |-> [t \in Runners |-> NoEntry]]

InitPods ==
    /\ \E pods \in [Runners -> PodIds] :
         call = [fn |-> "_get_pod_image_info", arg |-> pods, called |-> FALSE,
                 value |-> NoLookups]
    /\ NothingRuns

\* mobile_use.py:105-116: a client is built for thread t again, its cache
\* empty
NewClient(t) ==
    /\ t \in Runners /\ call.fn = "_get_pod_image_info"
    /\ call.value.cache[t].hit
    /\ call' = [call EXCEPT !.value.cache[t] = NoEntry]
    /\ pod_info' = [pod_info EXCEPT ![t] = FALSE]
    /\ UNCHANGED <<infer, mode, npods, ncases, max_polls, content, shutdown, active, cache, q,
                   started, results, returned, emitted, th, remote>>

\* mobile_use.py:333-373: thread t's client looks up its pod
GetPodImageInfoCall(t) ==
    /\ t \in Runners /\ call.fn = "_get_pod_image_info"
    /\ LET p == call.arg[t]
           cached == call.value.cache[t]
       IN  IF cached.hit
             \* 338-340
             THEN /\ call' = [call EXCEPT !.called = TRUE, !.value.last[p] = cached]
                  /\ UNCHANGED <<pod_info, remote>>
           \* 349-372: DetailPod is called and what it gave is cached
           ELSE /\ call.value.calls[p] < MaxDetailPodCalls
                /\ \E o \in LookupOutcomes \ {"helper_raises"} :
                     LET e == Entry(PodImageInfoOf(o))
                     IN  call' = [call EXCEPT !.called = TRUE,
                                    !.value.calls[p] = @ + 1,
                                    !.value.first[p] = IF @.hit THEN @ ELSE e,
                                    !.value.last[p] = e,
                                    !.value.cache[t] = e]
                /\ pod_info' = [pod_info EXCEPT ![t] = TRUE]
                /\ remote' = [remote EXCEPT !.detail_pod_calls[t] = @ + 1]
    /\ UNCHANGED <<infer, mode, npods, ncases, max_polls, content, shutdown, active, cache, q,
                   started, results, returned, emitted, th>>

NextPods == \E t \in Runners : NewClient(t) \/ GetPodImageInfoCall(t)

SpecPods == InitPods /\ [][NextPods]_vars

\* ---- the screenshot URLs --------------------------------------------------
\* fault model of the extraction: original_screenshot is never looked at
ItemScreenshotOnly(it) == DictGet(it, "screenshot")

\* case_runner.py:653: it.get("screenshot") or it.get("original_screenshot")
ItemScreenshot(it) ==
    IF Truthy(DictGet(it, "screenshot")) THEN DictGet(it, "screenshot")
    ELSE DictGet(it, "original_screenshot")

\* the elements of a sequence
Range(seq) == {seq[i] : i \in 1..Len(seq)}

\* case_runner.py:646-658: the loop over the entries of the mapping, from
\* entry i on; urls is screenshot_urls (and the set seen), a URL being the
\* tokens of the stripped string
RECURSIVE CollectUrls(_, _, _)
CollectUrls(items, i, urls) ==
    IF i > Len(items) THEN urls
    ELSE LET it == items[i][2]
         IN  IF it.type # "dict" THEN CollectUrls(items, i + 1, urls)
             ELSE LET v == ItemScreenshot(it)
                  IN  IF v.type = "str" /\ NonBlank(v.text) /\ Strip(v.text) \notin Range(urls)
                        THEN CollectUrls(items, i + 1, Append(urls, Strip(v.text)))
                      ELSE CollectUrls(items, i + 1, urls)

\* case_runner.py:627, 640-658: screenshot_urls of a result payload
ScreenshotUrls(payload) ==
    IF payload.type # "dict" THEN <<>>
    ELSE LET shots == DictGet(payload, "ScreenShots")
         IN  IF shots.type = "dict" /\ shots.items # <<>>
               THEN CollectUrls(shots.items, 1, <<>>)
             ELSE <<>>

\* ---- the inputs of the screenshot extraction ------------------------------
MaxShots == 4

ScreenshotValues ==
    {PyNone, PyStr(<<>>), PyStr(<<Space>>), PyStr(<<"a">>), PyStr(<<Space, "a">>),
     PyStr(<<"b">>), PyStr(<<"c">>), PyInt(5)}

OriginalScreenshotValues == {PyNone, PyStr(<<"b">>), PyStr(<<"c", Space>>)}

\* the entries of the ScreenShots mapping: mappings with the two fields,
\* and a value that is no mapping
ScreenshotEntries ==
    {PyDict(Item("screenshot", v) \o Item("original_screenshot", o)) :
       v \in ScreenshotValues, o \in OriginalScreenshotValues}
      \cup {PyStr(<<"a">>)}

ShotKeys == <<"k1", "k2", "k3", "k4", "k5">>

\* result payloads with a ScreenShots mapping of up to MaxShots entries, in
\* insertion order (the one of no entries among them)
ScreenshotPayloads ==
    {PyDict(<< <<"ScreenShots", PyDict([i \in DOMAIN f |-> <<ShotKeys[i], f[i]>>])>> >>) :
       f \in UNION {[1..n -> ScreenshotEntries] : n \in 0..MaxShots}}

InitShots ==
    /\ \E payload \in ScreenshotPayloads :
         call = [fn |-> "screenshot_urls", arg |-> payload, called |-> FALSE, value |-> <<>>]
    /\ NothingRuns

\* case_runner.py:627, 640-658, for the payload drawn
ScreenshotUrlsCall ==
    /\ call.fn = "screenshot_urls" /\ ~call.called
    /\ call' = [call EXCEPT !.called = TRUE, !.value = ScreenshotUrls(call.arg)]
    /\ UNCHANGED <<infer, mode, npods, ncases, max_polls, content, shutdown, active, cache, q,
                   started, results, returned, emitted, th, pod_info, remote>>

NextShots == ScreenshotUrlsCall

SpecShots == InitShots /\ [][NextShots]_vars

\* ---- case discovery --------------------------------------------------------
\* A file name and a filter are sequences of characters, a path is the
\* sequence of its parts relative to cases_dir.
Slash == "/"
Dot == "."
TemplateStem == <<"t", "e", "m", "p", "l", "a", "t", "e">>

\* ord(ch), for the characters that occur
Ord(ch) == (" " :> 32 @@ "," :> 44 @@ "." :> 46 @@ "/" :> 47 @@ "T" :> 84 @@ "a" :> 97 @@ "b" :> 98 @@ "c" :> 99 @@ "d" :> 100 @@ "e" :> 101 @@ "g" :> 103 @@ "h" :> 104 @@ "l" :> 108 @@ "m" :> 109 @@ "p" :> 112 @@ "s" :> 115 @@ "t" :> 116 @@ "x" :> 120 @@ "z" :> 122)[ch]

\* str.lower() of one character
LowerChar(ch) == IF ch = "T" THEN "t" ELSE ch

\* s.lower()
LowerStr(s) == [i \in 1..Len(s) |-> LowerChar(s[i])]

\* s < t for two strings
StrLess(s, t) ==
    \/ Len(s) < Len(t) /\ SubSeq(t, 1, Len(s)) = s
    \/ \E i \in 1..Len(s) :
         /\ i <= Len(t) /\ SubSeq(s, 1, i - 1) = SubSeq(t, 1, i - 1)
         /\ Ord(s[i]) < Ord(t[i])

\* p < r for two paths: pathlib compares the sequences of parts
PathLess(p, r) ==
    \/ Len(p) < Len(r) /\ SubSeq(r, 1, Len(p)) = p
    \/ \E i \in 1..Len(p) :
         /\ i <= Len(r) /\ SubSeq(p, 1, i - 1) = SubSeq(r, 1, i - 1)
         /\ StrLess(p[i], r[i])

\* fault model of the sort: the paths come out in descending order
RECURSIVE SortedDescending(_)
SortedDescending(paths) ==
    IF paths = {} THEN <<>>
    ELSE LET last == CHOOSE p \in paths : \A r \in paths \ {p} : PathLess(r, p)
         IN  <<last>> \o SortedDescending(paths \ {last})

\* case_runner.py:49: sorted(...) of a set of paths
RECURSIVE Sorted(_)
Sorted(paths) ==
    IF paths = {} THEN <<>>
    ELSE LET first == CHOOSE p \in paths : \A r \in paths \ {p} : PathLess(p, r)
         IN  <<first>> \o Sorted(paths \ {first})

\* text.endswith(suffix)
EndsWith(text, suffix) ==
    Len(text) >= Len(suffix) /\ SubSeq(text, Len(text) - Len(suffix) + 1, Len(text)) = suffix

\* case_runner.py:44-47: the name matches "*.md" or "*.case"
MatchesPattern(name) == EndsWith(name, <<".", "m", "d">>) \/ EndsWith(name, <<".", "c", "a", "s", "e">>)

\* Path.name and Path.stem
NameOf(path) == path[Len(path)]
StemOf(name) ==
    LET dots == {i \in 1..Len(name) : name[i] = Dot}
        i == CHOOSE k \in dots : \A j \in dots : j <= k
    IN  IF dots = {} THEN name
        ELSE IF i = 1 \/ i = Len(name) THEN name
        ELSE SubSeq(name, 1, i - 1)

\* str(f.relative_to(cases_dir))
RECURSIVE RelOf(_)
RelOf(path) ==
    IF Len(path) = 1 THEN path[1]
    ELSE path[1] \o <<Slash>> \o RelOf(Tail(path))

\* token in rel
Contains(rel, token) ==
    \E i \in 1..(Len(rel) - Len(token) + 1) : SubSeq(rel, i, i + Len(token) - 1) = token

\* raw.split(",")
RECURSIVE SplitComma(_)
SplitComma(raw) ==
    LET commas == {i \in 1..Len(raw) : raw[i] = ","}
        i == CHOOSE k \in commas : \A j \in commas : k <= j
    IN  IF commas = {} THEN <<raw>>
        ELSE <<SubSeq(raw, 1, i - 1)>> \o SplitComma(SubSeq(raw, i + 1, Len(raw)))

\* case_runner.py:51-52: the tokens of CASE_FILTER
FilterTokens(raw) ==
    LET pieces == SplitComma(Strip(raw))
    IN  IF Strip(raw) = <<>> THEN {}
        ELSE {Strip(pieces[i]) : i \in {j \in 1..Len(pieces) : NonBlank(pieces[j])}}

\* case_runner.py:55-64: the path stays in the list
Kept(path, filters) ==
    /\ NameOf(path)[1] # Dot
    /\ LowerStr(StemOf(NameOf(path))) # TemplateStem
    /\ filters # {} => \E token \in filters : Contains(RelOf(path), token)

\* case_runner.py:66-68: enumerate(filtered)
CaseFiles(filtered) == [i \in 1..Len(filtered) |-> [index |-> i - 1, path |-> filtered[i]]]

\* case_runner.py:43-69: discover_cases, for the entries below cases_dir and
\* the value of CASE_FILTER (the content read at 68 is left out)
DiscoverCases(entries, raw_filter) ==
    LET files == Sorted({e.path : e \in {x \in entries : MatchesPattern(NameOf(x.path)) /\ x.is_file}})
        filters == FilterTokens(raw_filter)
    IN  CaseFiles(SelectSeq(files, LAMBDA f : Kept(f, filters)))

\* ---- the inputs of case discovery -------------------------------------------
DirEntry(path, is_file) == [path |-> path, is_file |-> is_file]

\* the entries a cases directory may hold: files and one directory
DirEntries ==
    {DirEntry(<<<<"a", ".", "m", "d">>>>, TRUE),
     DirEntry(<<<<"a">>, <<"x", ".", "m", "d">>>>, TRUE),
     DirEntry(<<<<"a">>, <<"b", ".", "m", "d">>>>, TRUE),
     DirEntry(<<<<".", "h", ".", "m", "d">>>>, TRUE),
     DirEntry(<<<<".", "g">>, <<"b", ".", "m", "d">>>>, TRUE),
     DirEntry(<<<<"t", "e", "m", "p", "l", "a", "t", "e", ".", "m", "d">>>>, TRUE),
     DirEntry(<<<<"a">>, <<"T", "e", "m", "p", "l", "a", "t", "e", ".", "c", "a", "s", "e">>>>, TRUE),
     DirEntry(<<<<"b", ".", "c", "a", "s", "e">>>>, TRUE),
     DirEntry(<<<<"c", ".", "t", "x", "t">>>>, TRUE),
     DirEntry(<<<<"d", ".", "m", "d">>>>, FALSE)}

\* the values of CASE_FILTER
CaseFilters ==
    {<<>>,
     <<"a">>,
     <<",", "b", ".", "c", " ", ",", " ", "x">>,
     <<" ", ",", " ">>,
     <<"a", "/">>,
     <<"z", "z">>}

InitDiscover ==
    /\ \E entries \in SUBSET DirEntries, raw \in CaseFilters :
         call = [fn |-> "discover_cases", arg |-> [entries |-> entries, filter |-> raw],
                 called |-> FALSE, value |-> <<>>]
    /\ NothingRuns

\* case_runner.py:43-69, for the directory and the filter drawn
DiscoverCasesCall ==
    /\ call.fn = "discover_cases" /\ ~call.called
    /\ call' = [call EXCEPT !.called = TRUE,
                            !.value = DiscoverCases(call.arg.entries, call.arg.filter)]
    /\ UNCHANGED <<infer, mode, npods, ncases, max_polls, content, shutdown, active, cache, q,
                   started, results, returned, emitted, th, pod_info, remote>>

NextDiscover == DiscoverCasesCall

SpecDiscover == InitDiscover /\ [][NextDiscover]_vars

\* ---- the workers and their pods --------------------------------------------
\* The workers of parallel mode with the pod ids POD_ID_LIST gives them:
\* call.arg is pod_ids, worker t is the thread started for pod_ids[t]
\* (case_runner.py:1220).  Of run_one_case only the steps that touch the
\* registry are followed; the run id of a case is its index.
InitPodWorkers ==
    /\ \E pod_ids \in [Workers -> PodIds] :
         call = [fn |-> "worker", arg |-> pod_ids, called |-> FALSE, value |-> <<>>]
    /\ infer = NoInference
    /\ mode = "parallel" /\ npods = MaxPods /\ ncases \in 1..MaxCases
    /\ max_polls = MaxPolls
    /\ content = [c \in CaseIds |-> "text"]
    /\ shutdown = FALSE
    /\ active = {}
    /\ cache = [c \in CaseIds |-> NoResp]
    /\ q = [k \in 1..(ncases + MaxPods) |-> IF k <= ncases THEN k - 1 ELSE Sentinel]
    /\ started = [c \in CaseIds |-> 0]
    /\ results = <<>>
    /\ returned = NotReturned
    /\ emitted = [c \in CaseIds |-> 0]
    /\ th = [t \in Threads |-> IF t \in Workers THEN [Idle EXCEPT !.pc = "pw_get"] ELSE Idle]
    /\ pod_info = [t \in Runners |-> FALSE]
    /\ remote = [submit_calls |-> [c \in CaseIds |-> 0],
                 cancel_calls |-> [c \in CaseIds |-> 0],
                 ops |-> [c \in CaseIds |-> {}],
                 detail_pod_calls |-> [t \in Runners |-> 0]]

\* what no step of a worker changes here
PodWorkerFrame ==
    UNCHANGED <<call, infer, mode, npods, ncases, max_polls, content, cache, started, results,
                returned, emitted, pod_info, remote>>

\* case_runner.py:1205-1213: the head of the worker's loop
PodWorkerGet(t) ==
    /\ t \in Workers /\ th[t].pc = "pw_get"
    /\ IF shutdown
         THEN Set(t, [th[t] EXCEPT !.pc = "pw_done"]) /\ q' = q
         ELSE /\ q # <<>>
              /\ q' = Tail(q)
              /\ IF Head(q) = Sentinel
                   THEN Set(t, [th[t] EXCEPT !.pc = "pw_done"])
                   ELSE Set(t, [th[t] EXCEPT !.pc = "pw_submit", !.c = Head(q)])
    /\ PodWorkerFrame /\ UNCHANGED <<shutdown, active>>

\* case_runner.py:727-847: run_one_case up to the submission; it returns a
\* verdict without a run (shutdown, empty content, failed submission) or has
\* the run id of the task submitted to the worker's pod
PodWorkerSubmit(t) ==
    /\ t \in Workers /\ th[t].pc = "pw_submit"
    /\ \/ Set(t, [th[t] EXCEPT !.pc = "pw_get", !.c = NoCase])
       \/ Set(t, [th[t] EXCEPT !.pc = "pw_register", !.rid = th[t].c])
    /\ PodWorkerFrame /\ UNCHANGED <<shutdown, active, q>>

\* case_runner.py:849
PodWorkerRegister(t) ==
    /\ t \in Workers /\ th[t].pc = "pw_register"
    /\ active' = RegisterActiveRunId(active, th[t].rid)
    /\ Set(t, [th[t] EXCEPT !.pc = "pw_poll"])
    /\ PodWorkerFrame /\ UNCHANGED <<shutdown, q>>

\* case_runner.py:856-999: the poll loop and its handlers, to any of their
\* return statements
PodWorkerLifecycle(t) ==
    /\ t \in Workers /\ th[t].pc = "pw_poll"
    /\ Set(t, [th[t] EXCEPT !.pc = "pw_unregister"])
    /\ PodWorkerFrame /\ UNCHANGED <<shutdown, active, q>>

\* case_runner.py:1001-1002, and the worker's append and callback (1215-1218)
PodWorkerUnregister(t) ==
    /\ t \in Workers /\ th[t].pc = "pw_unregister"
    /\ active' = UnregisterActiveRunId(active, th[t].rid)
    /\ Set(t, [th[t] EXCEPT !.pc = "pw_get", !.c = NoCase, !.rid = NoCase])
    /\ PodWorkerFrame /\ UNCHANGED <<shutdown, q>>

\* case_runner.py:322-326: a signal sets the flag (the sweep it starts only
\* reads the registry)
PodWorkerSignal ==
    /\ ~shutdown
    /\ shutdown' = TRUE
    /\ PodWorkerFrame /\ UNCHANGED <<active, q, th>>

NextPodWorkers ==
    \/ PodWorkerSignal
    \/ \E t \in Workers :
         \/ PodWorkerGet(t) \/ PodWorkerSubmit(t) \/ PodWorkerRegister(t)
         \/ PodWorkerLifecycle(t) \/ PodWorkerUnregister(t)

SpecPodWorkers == InitPodWorkers /\ [][NextPodWorkers]_vars

\* ---- properties ----------------------------------------------------------
\* the entries of a list of verdicts that belong to case c
EntriesOf(list, c) == {k \in 1..Len(list) : list[k].case = c}

\* the recorded results of case c
RecordedFor(c) == {k \in 1..Len(results) : results[k][1] = c}

TaskOps == {"submit", "poll", "fetch", "cancel"}

\* C1: the list run_suite returns has exactly one entry for every case index
\* 0..N-1, in every mode and under every interleaving of workers, signals
\* and KeyboardInterrupt.
C1_ExactlyOneEntryPerIndex ==
    returned.done =>
        \A c \in Cases : Cardinality(EntriesOf(returned.list, c)) = 1

\* C2: the list run_suite returns is sorted by case index.
C2_ReturnedSortedByIndex ==
    returned.done =>
        \A j, k \in 1..Len(returned.list) :
            j < k => returned.list[j].case <= returned.list[k].case

\* C3: the remote cancel operation is called exactly once in total for a run
\* id that the triggers cancel: never twice, and once when a cancel response
\* for it exists.
C3_CancelExactlyOnce ==
    \A r \in CaseIds :
        /\ remote.cancel_calls[r] <= 1
        /\ cache[r] # NoResp => remote.cancel_calls[r] = 1

\* a cancel attempt for run id r has been made: the remote has been called
\* for it, or a thread other than t is inside the attempt's remote call
AttemptMade(r, t) ==
    \/ remote.cancel_calls[r] > 0
    \/ \E u \in Threads \ {t} : th[u].pc = "c_remote" /\ th[u].rid = r

\* C4: once a cancel attempt for a run id has been made, no later attempt for
\* that run id goes on to the remote cancel call: it replays the cached
\* response.
C4_SecondAttemptIsNoOp ==
    [][\A t \in Threads :
          (th[t].pc # "c_remote" /\ th'[t].pc = "c_remote")
              => ~AttemptMade(th'[t].rid, t)]_vars

\* C5: a case that ends by its deadline has verdict fail with reason 'timed
\* out waiting for completion', and exactly one remote cancel call has been
\* made for its run id when the verdict is returned.
C5_TimeoutFailsWithOneCancel ==
    \A t \in Runners :
        (th[t].pc = AfterCase /\ th[t].out.reason = TimeoutStatusReason[2])
            => /\ th[t].out.status = "fail"
               /\ remote.cancel_calls[th[t].c] = 1

\* C6: a lifecycle that finds the shutdown flag set at the top of a poll-loop
\* iteration polls and fetches no more: it goes to the cancel of its run,
\* which replays the cached response or calls the remote, and returns skip
\* with reason 'local interruption, cancellation issued'.
C6_ShutdownAtLoopTop ==
    [][\A t \in Runners :
          LET c == th[t].c
              added == remote'.ops[c] \ remote.ops[c]
          IN  /\ (th[t].pc = "loop" /\ shutdown /\ th'[t] # th[t])
                    => /\ th'[t].pc = "c_check" /\ th'[t].ctx = "shutdown"
                       /\ th'[t].rid = c
                       /\ remote' = remote
              /\ (th[t].ctx = "shutdown" /\ th[t].pc \in {"c_check", "c_remote"}
                     /\ th'[t] # th[t])
                    => /\ th'[t].pc \in {"c_remote", "roc_out"}
                       /\ added \subseteq {"cancel"}
                       /\ th'[t].pc = "roc_out"
                            => /\ th'[t].cancel_resp # NoResp
                               /\ th'[t].cancel_resp = cache'[c]
                               /\ remote'.cancel_calls[c] >= 1
              /\ (th[t].ctx = "shutdown" /\ th[t].pc = "roc_out" /\ th'[t] # th[t])
                    => /\ th'[t].pc = AfterCase
                       /\ th'[t].out.status = "skip"
                       /\ th'[t].out.reason = "local interruption, cancellation issued"
                       /\ th'[t].out.run_id = c
                       /\ added \subseteq {"meta"}]_vars

\* a lifecycle has returned the shutdown-cancelled verdict
C6_Witness ==
    \E t \in Runners :
        /\ th[t].pc = AfterCase
        /\ th[t].out.reason = "local interruption, cancellation issued"
        /\ remote.cancel_calls[th[t].c] >= 1

\* C7: a case with empty content gets verdict skip, and no submit, step-trace
\* poll, result fetch or cancel is ever issued for it.
C7_EmptyContentSkips ==
    \A c \in Cases :
        content[c] = ""
            => /\ remote.ops[c] \cap TaskOps = {}
               /\ remote.submit_calls[c] = 0 /\ remote.cancel_calls[c] = 0
               /\ \A t \in Runners :
                      (th[t].c = c /\ th[t].pc \in {"append", "emit"})
                          => th[t].out.status = "skip"
               /\ \A k \in RecordedFor(c) : results[k][2].status = "skip"

\* run_one_case has returned for a case with empty content, with the flag unset
C7_Witness ==
    \E k \in 1..Len(results) :
        /\ content[results[k][1]] = ""
        /\ results[k][2].reason = "case content is empty"

C9_ShutdownAtStart ==
    [][\A t \in Runners :
          (th[t].pc = "roc_start" /\ shutdown /\ th'[t] # th[t])
              => /\ th'[t].pc = AfterCase
                 /\ th'[t].out.status = "skip"
                 /\ th'[t].out.reason = "local interruption, not executed"
                 /\ remote' = remote
                 /\ remote.submit_calls[th[t].c] = 0
                 /\ active' = active
                 /\ th[t].c \notin active]_vars

\* run_one_case has returned the verdict of a case it found the flag set for
C9_Witness ==
    \E t \in Runners :
        /\ th[t].pc = AfterCase
        /\ shutdown
        /\ th[t].out = ShutdownAtStartVerdict(th[t].c, Pod(t))

\* the queue's items that are cases
QueuedCases == {q[k] : k \in 1..Len(q)} \ {Sentinel}

\* C10: in parallel mode without shutdown every case is processed exactly
\* once, by one worker: a case is never taken twice, a case that has not
\* been taken is still in the queue, and when run_suite has returned every
\* case has been taken once and has one recorded result.
C10_EachCaseProcessedOnce ==
    (mode = "parallel" /\ ~shutdown /\ th[Main].pc # "rs_start")
        => \A c \in Cases :
              /\ started[c] <= 1
              /\ started[c] = 0 <=> c \in QueuedCases
              /\ Cardinality({t \in Workers : th[t].c = c}) <= started[c]
              /\ Cardinality(RecordedFor(c)) <= started[c]
              /\ returned.done
                    => /\ started[c] = 1
                       /\ Cardinality(RecordedFor(c)) = 1
                       /\ Cardinality(EntriesOf(returned.list, c)) = 1

\* run_suite has returned in parallel mode without shutdown, the two cases
\* having been processed by different workers
C10_Witness ==
    /\ mode = "parallel" /\ ~shutdown /\ returned.done
    /\ ncases = 2
    /\ returned.list[1].pod_id # returned.list[2].pod_id

\* ---- C11 ------------------------------------------------------------------
\* C11: across one run_suite invocation, in every mode and under every
\* interleaving including shutdown, RunAgentTask is called at most once for
\* each case: a case is handed to run_one_case at most once and a case that
\* failed, timed out or was interrupted is never submitted again.
C11_SubmitAtMostOnce ==
    \A c \in CaseIds : remote.submit_calls[c] <= 1 /\ started[c] <= 1

\* run_suite has returned after a shutdown, and a case that was submitted
\* ended with a fail or a skip verdict
C11_Witness ==
    /\ returned.done /\ shutdown
    /\ \E c \in Cases :
         /\ remote.submit_calls[c] = 1
         /\ \E k \in 1..Len(returned.list) :
              returned.list[k].case = c /\ returned.list[k].status \in {"fail", "skip"}

\* ---- C12 ------------------------------------------------------------------
\* the call looked at was made without the timeout flag on a response whose
\* payload is a mapping
InferredPayload ==
    infer.called /\ ~infer.timeout /\ infer.resp.Result \in {"dict", "absent"}

PayloadCode == CoerceIsSuccessCode(infer.resp.IsSuccess)

\* what the structured self-report of the payload says: the StructOutput
\* value or, without one, the JSON object embedded in the content
StructuredSays ==
    IF InferFromStructOutput(infer.resp.StructOutput)[1] # NoResp
      THEN InferFromStructOutput(infer.resp.StructOutput)[1]
    ELSE IF ContentJsonObj(infer.resp.Content).ok
      THEN ObjStatusReason(ContentJsonObj(infer.resp.Content).obj)[1]
    ELSE NoResp

\* what the self-report inference says, structured or from the free-text
\* markers of the content
InferenceSays == InferFromResultPayload(infer.resp)[1]

\* the part of the code table both statements share: 5 is skip, 2, 4 and 6
\* are fail, no code and 0 are fail
FixedCodes ==
    /\ PayloadCode = 5 => infer.status = "skip"
    /\ PayloadCode \in {2, 4, 6} => infer.status = "fail"
    /\ PayloadCode \in {-1, 0} => infer.status = "fail"

CarriesNative(raw, rep) ==
    raw.StructOutput = DictStruct(rep) /\ raw.Content \in {<<>>, <<"done">>}

CarriesPlain(raw, rep) ==
    raw.StructOutput = NoStruct /\ raw.Content = <<"done">> \o JsonDumps(rep)

CarriesEscaped(raw, rep) ==
    raw.StructOutput = NoStruct /\ raw.Content = <<"done">> \o EscapeQuotes(JsonDumps(rep))

\* C13: when the code-derived status is pass (code 1 or 3, no envelope, no
\* timeout) and the payload carries a structured self-report, natively or
\* as JSON embedded plain or escaped in the content text, whose status is
\* fail or skip, the verdict has the self-report's status and, when the
\* self-report has a reason, that reason.
C13_SelfReportWins ==
    \A st \in {"fail", "skip"}, rs \in {"", "X"} :
      ( /\ InferredPayload /\ PayloadCode \in {1, 3} /\ infer.resp.Error = ""
        /\ \/ CarriesNative(infer.resp, Report(st, rs))
           \/ CarriesPlain(infer.resp, Report(st, rs))
           \/ CarriesEscaped(infer.resp, Report(st, rs)) )
      => /\ infer.status = st
         /\ rs # "" => infer.reason = rs

\* ---- C14 ------------------------------------------------------------------
\* C14: when the final-result response carries a top-level error envelope,
\* the verdict is fail with the envelope's message as reason, for every
\* value of the success code in the payload, 5, 1 and 3 included.
C14_EnvelopeFails ==
    (infer.called /\ ~infer.timeout /\ infer.resp.Error # "")
      => infer.status = "fail" /\ infer.reason = infer.resp.Error

\* ---- C15 ------------------------------------------------------------------
\* thread t is inside run_one_case for case c, between the registration of
\* its run id and the return
InLifecycle(t, c) ==
    /\ th[t].c = c
    /\ th[t].pc \in {"loop", "c_check", "c_remote", "roc_out", "roc_unreg"}
    /\ th[t].ctx \notin SweepCtxs

\* C15: a run id is in the registry only between its registration and the
\* exit of the lifecycle that registered it: every exit of run_one_case
\* removes it, so a run id whose lifecycle is over is not in the registry.
C15_RegisteredOnlyDuringLifecycle ==
    \A c \in active : \E t \in Runners : InLifecycle(t, c)

\* ---- C16 ------------------------------------------------------------------
\* thread record r is inside run_one_case, from the submission on
InRun(r) ==
    \/ r.pc \in {"roc_submit", "roc_register", "loop", "roc_unreg"}
    \/ r.pc \in {"c_check", "c_remote", "roc_out"} /\ r.ctx \notin SweepCtxs

\* a cancel has been attempted for the run of case c
CancelAttempted(c) == cache[c] # NoResp \/ remote.cancel_calls[c] >= 1

\* C16: no exception raised during the submission or the polling of a case
\* escapes the lifecycle: the lifecycle is only ever left by returning a
\* verdict, which after an ordinary exception is a fail (with a cancel
\* attempted when a run exists) and after an interrupt-class exception a
\* skip with the shutdown flag set (and a cancel attempted when a run
\* exists).
C16_NoExceptionEscapes ==
    [][\A t \in Runners :
         (InRun(th[t]) /\ ~InRun(th'[t])) =>
           /\ th'[t].pc = AfterCase /\ th'[t].out.case = th[t].c
           /\ th'[t].out.reason \in {"local exception", "RunAgentTask call raised"}
                => th'[t].out.status = "fail"
           /\ th'[t].out.reason = "local exception" => CancelAttempted(th[t].c)'
           /\ th'[t].out.reason \in {"local exit", "local exit: RunAgentTask call interrupted"}
                => th'[t].out.status = "skip" /\ shutdown'
           /\ th'[t].out.reason = "local exit" => CancelAttempted(th[t].c)'
      ]_vars

\* ---- C17 ------------------------------------------------------------------
\* thread t builds and returns the verdict of its lifecycle in this step
ProducesVerdict(t) == InRun(th[t]) /\ th'[t].pc = AfterCase

\* the lifecycle of thread t has found its deadline passed
DeadlinePassed(t) == th[t].ctx = "timeout"

\* C17: a global shutdown takes priority over a case-local timeout: a
\* verdict produced when the shutdown flag is set and the deadline has
\* passed is the shutdown skip ('local interruption'), never the timeout
\* fail.
C17_ShutdownBeforeTimeout ==
    [][\A t \in Runners :
         (ProducesVerdict(t) /\ shutdown /\ DeadlinePassed(t)) =>
           /\ th'[t].out.status = "skip"
           /\ th'[t].out.reason = "local interruption, cancellation issued"
      ]_vars

\* ---- C18 ------------------------------------------------------------------
\* the reasons of the two verdicts of a failed submission
SubmitFailureReasons == {"no run id returned", "RunAgentTask call raised"}

\* the verdicts that exist: returned by a lifecycle and not yet recorded,
\* recorded, or in the list run_suite returned
KnownVerdicts ==
    {th[t].out : t \in Runners} \cup {results[k][2] : k \in 1..Len(results)}
      \cup {returned.list[k] : k \in 1..Len(returned.list)}

\* C18: a case whose submission fails (submit raises, or returns no run
\* identifier) never enters the active-run registry, has no cancel call
\* issued for it, and its verdict is fail (with the reason 'no run id
\* returned' when submit returned empty): it carries no run id.
C18_FailedSubmission ==
    \A v \in KnownVerdicts :
      v.reason \in SubmitFailureReasons =>
        /\ v.status = "fail" /\ v.run_id = NoCase
        /\ v.case \notin active
        /\ remote.cancel_calls[v.case] = 0 /\ cache[v.case] = NoResp
        /\ remote.submit_calls[v.case] = 1

\* run_suite has returned after a shutdown with its sweep, and a case whose
\* submit returned no run id is in the list
C18_Witness ==
    /\ returned.done /\ shutdown
    /\ \E k \in 1..Len(returned.list) :
         /\ returned.list[k].reason = "no run id returned"
         /\ remote.submit_calls[returned.list[k].case] = 1
         /\ remote.cancel_calls[returned.list[k].case] = 0

\* ---- C19 ------------------------------------------------------------------
\* C19: in serial mode the cases are started strictly in discovery order by
\* one thread, and the verdict of a case is recorded and passed to the
\* per-result callback before the next case is started, so before it is
\* submitted.
C19_SerialOrder ==
    mode = "serial" =>
      /\ \A t \in Workers : th[t].pc = "idle"
      /\ \A c \in CaseIds :
           started[c] >= 1 =>
             /\ started[c] = 1
             /\ \A b \in 0..(c - 1) :
                  /\ started[b] = 1
                  /\ RecordedFor(b) # {}
                  /\ emitted[b] = 1

\* serial mode: the second case has been submitted, after the verdict of
\* the first was recorded and emitted
C19_Witness ==
    /\ mode = "serial" /\ ncases = 2
    /\ remote.submit_calls[1] = 1
    /\ RecordedFor(0) # {} /\ emitted[0] = 1

\* ---- C20 ------------------------------------------------------------------
\* what can be observed of a serial run: one thread and no queue; the cases
\* started in discovery order, each after the verdict of the one before it
\* was recorded and emitted; the returned list with one entry per case in
\* case order, the recorded verdicts, where a case that was never started
\* has, after a shutdown, the synthesized skip
SerialObservables ==
    /\ q = <<>> /\ \A t \in Workers : th[t].pc = "idle"
    /\ \A c \in CaseIds, b \in CaseIds :
         (b < c /\ started[c] >= 1) =>
           started[b] = 1 /\ RecordedFor(b) # {} /\ emitted[b] = 1
    /\ returned.done =>
         /\ Len(returned.list) = ncases
         /\ returned.list = Verdicts(results)
         /\ \A k \in 1..ncases :
              /\ returned.list[k].case = k - 1
              /\ started[k - 1] = 0 => shutdown /\ returned.list[k] = SynthSkip(k - 1)
              /\ returned.list[k] # SynthSkip(k - 1) => started[k - 1] = 1

\* C20: 'auto' runs as parallel exactly when more than one pod is
\* configured and as serial otherwise; 'parallel' with at most one pod runs
\* as serial does: a single thread, the cases in discovery order, the same
\* verdicts and the same synthesized skips.
C20_ModeResolution ==
    /\ \A n \in 0..MaxPods :
         /\ ResolveMode("auto", n) = (IF n > 1 THEN "parallel" ELSE "serial")
         /\ n <= 1 => ResolveMode("parallel", n) = "fallback"
         /\ n > 1 => ResolveMode("parallel", n) = "parallel"
    /\ mode = "parallel" => npods > 1
    /\ mode = "fallback" => npods <= 1
    /\ mode \in {"serial", "fallback"} => SerialObservables

\* a run in the fallback of parallel with one pod has returned after a
\* shutdown: a verdict of a case that ran and a synthesized skip
C20_Witness ==
    /\ mode = "fallback" /\ npods = 1 /\ ncases = 2
    /\ returned.done /\ shutdown
    /\ remote.submit_calls[0] = 1
    /\ returned.list[2] = SynthSkip(1)

\* ---- C21 ------------------------------------------------------------------
\* this step starts the cancel-all thread
SpawnsSweep ==
    /\ th'[SweepT] # th[SweepT]
    /\ th'[SweepT].pc = "sw_snap" /\ th'[SweepT].ctx = "sig"

\* C21: the signal handler sets the shutdown flag idempotently: the first
\* signal sets the flag and starts one background sweep, the handler itself
\* making no remote call and no cancel attempt; once the flag is set it
\* stays set and no sweep is started again.
C21_SignalIdempotent ==
    [][/\ shutdown => shutdown'
       /\ SpawnsSweep =>
            /\ ~shutdown /\ shutdown'
            /\ cache' = cache
            /\ th[Main].pc \notin {"roc_submit", "c_remote"} => remote' = remote
      ]_vars

\* the sweep a signal started has run to its end and cancelled a run, and
\* the flag is set
C21_Witness ==
    /\ shutdown /\ th[SweepT].pc = "sw_done"
    /\ \E c \in Cases : remote.cancel_calls[c] >= 1

\* ---- C22 ------------------------------------------------------------------
\* the step-trace poll of thread t in this step raised: the lifecycle has
\* left the loop for its exception path (956-976)
PollFailureEndsLifecycle(t) ==
    /\ th[t].pc = "loop" /\ ~shutdown
    /\ th'[t].pc = "c_check" /\ th'[t].ctx = "exc"

CompletionSignals == {"finished", "request_user"}

\* the last step signal the lifecycle of record r has observed: the local
\* last_step_signal while it runs, the annotation of its verdict once it
\* has completed
ObservedSignal(r) ==
    IF r.pc = "roc_unreg" THEN r.out.task_status ELSE r.last_step_signal

\* the step-trace poll of thread t's iteration in this step reported a
\* completion signal it had not observed before
NewCompletionSignal(t) ==
    /\ th[t].pc = "loop"
    /\ ObservedSignal(th'[t]) \in CompletionSignals
    /\ ObservedSignal(th'[t]) # th[t].last_step_signal

\* thread t leaves the loop in this step with a verdict inferred from a
\* fetched terminal result
CompletesFromFetched(t) ==
    /\ th'[t].pc = "roc_unreg"
    /\ th'[t].out.case = th[t].c
    /\ \E resp \in ResultResps :
         /\ IsDoneByGetResult(resp)
         /\ th'[t].out.status = ResultFromResp(resp, FALSE)[1]
         /\ ResultFromResp(resp, FALSE)[2] # "" =>
              th'[t].out.reason = ResultFromResp(resp, FALSE)[2]

\* C23: whenever the step-trace poll of an iteration reports a completion
\* signal, the lifecycle resolves in that iteration: it exits with the
\* verdict inferred from the fetched final result, annotated with the
\* signal, and does not return to polling.
C23_CompletionSignalResolves ==
    [][\A t \in Runners :
         NewCompletionSignal(t) =>
           /\ CompletesFromFetched(t)
           /\ th'[t].out.task_status = ObservedSignal(th'[t])
      ]_vars

\* C23 as the code has it: when the poll of an iteration reports a
\* completion signal and the final result fetched in that iteration (or
\* probed in it) is terminal, the lifecycle exits with the verdict inferred
\* from that result, annotated with the signal; when what was fetched is
\* not terminal, the lifecycle keeps the signal and goes on with the
\* iteration (deadline check, next poll).
C23_CompletionSignalAmended ==
    [][\A t \in Runners :
         NewCompletionSignal(t) =>
           \/ CompletesFromFetched(t)
           \/ /\ th'[t].pc \in {"loop", "c_check"}
              /\ ~IsDoneByGetResult(th'[t].last_resp)
              /\ th'[t].last_step_signal \in CompletionSignals
      ]_vars

\* a lifecycle has completed on a completion signal with a pass verdict
C23_Witness ==
    \E t \in Runners :
      /\ th[t].pc = "roc_unreg"
      /\ th[t].out.task_status \in CompletionSignals
      /\ th[t].out.status = "pass"

\* ---- C24 ------------------------------------------------------------------
\* thread t leaves the loop in this step with a completed verdict although
\* no poll of its lifecycle has reported a step signal: the result probe
\* has resolved it
ResolvesFromProbe(t) ==
    /\ th[t].pc = "loop" /\ th'[t].pc = "roc_unreg"
    /\ th'[t].out.task_status = NoResp

\* the verdicts inferred from a payload whose success code is non-zero
NonZeroCodeVerdicts ==
    {ResultFromResp(CodeResp(k), FALSE) : k \in Codes \ {-1, 0}}

\* C24: the result probe runs on every 5th poll iteration that a step
\* signal did not resolve, and the lifecycle resolves from the probed
\* response exactly when its success code is non-zero: a probed response
\* with code 0, no code, an error envelope or an empty result leaves the
\* lifecycle polling.
C24_ProbeResolvesOnNonZeroCode ==
    [][\A t \in Runners :
         ResolvesFromProbe(t) =>
           /\ (th[t].probe_polls + 1) % ProbeEvery = 0
           /\ <<th'[t].out.status, th'[t].out.reason>> \in NonZeroCodeVerdicts
      ]_vars

\* ---- C25 ------------------------------------------------------------------
\* the mapping the step entries are looked for in: the Result of the
\* response when that is a mapping, else the response
StepPayloadOf(resp) ==
    IF resp.type = "dict" /\ DictGet(resp, "Result").type = "dict"
      THEN DictGet(resp, "Result") ELSE resp

\* the step entries of a response
StepsOf(resp) ==
    LET pl == StepPayloadOf(resp)
        l == IF pl.type # "dict" THEN PyNone
             ELSE IF Truthy(DictGet(pl, "Results")) THEN DictGet(pl, "Results")
             ELSE DictGet(pl, "results")
    IN  IF l.type = "list" THEN l.elems ELSE <<>>

\* some step entry of the response has action a
HasStepWithAction(resp, a) ==
    \E i \in 1..Len(StepsOf(resp)) :
      /\ StepsOf(resp)[i].type = "dict"
      /\ StepAction(StepsOf(resp)[i]) = <<a>>

\* the marker request_user occurs in value v, at any depth: as a key of a
\* mapping or in a text
RECURSIVE MarkerOccurs(_)
MarkerOccurs(v) ==
    CASE v.type = "str" -> \E i \in 1..Len(v.text) : v.text[i] = RequestUserMarker
      [] v.type = "dict" ->
           \/ HasKey(v, RequestUserMarker)
           \/ \E i \in 1..Len(v.items) : MarkerOccurs(v.items[i][2])
      [] v.type = "list" -> \E i \in 1..Len(v.elems) : MarkerOccurs(v.elems[i])
      [] OTHER -> FALSE

\* C25: the step-trace completion check reports done exactly when some
\* step entry has action 'finished', or some step entry has action
\* 'request_user', or the marker request_user occurs anywhere in the
\* payload at any nesting depth; the signal is 'finished' or
\* 'request_user' accordingly, and there is none when it is not done.
C25_DoneExactlyOnSignal ==
    (call.fn = "_extract_current_step_signal" /\ call.called) =>
      LET r == call.arg
          done == call.value[1]
          signal == call.value[2]
      IN  /\ done <=> \/ HasStepWithAction(r, "finished")
                      \/ HasStepWithAction(r, "request_user")
                      \/ MarkerOccurs(StepPayloadOf(r))
          /\ done => signal \in {"finished", "request_user"}
          /\ ~done => signal = NoResp
          /\ signal = "finished" => HasStepWithAction(r, "finished")
          /\ signal = "request_user" =>
               HasStepWithAction(r, "request_user") \/ MarkerOccurs(StepPayloadOf(r))

\* ---- C26 ------------------------------------------------------------------
\* C26: the registry lock and the cancel-cache lock are held only while the
\* set or the cache is read or written: in no reachable state does a thread
\* hold one of them while it is inside a remote call or sleeping.
C26_NoLockAcrossRemoteCall ==
    \A t \in Threads :
      th[t].lock # NoLock => ~InRemoteCall(t) /\ ~Sleeping(t)

\* a thread holds the registry lock while another is inside a remote call
\* and a third thread's cancel is about to read the cache
C26_Witness ==
    \E t, u \in Threads :
      /\ RegistryLock \in th[t].lock
      /\ InRemoteCall(u)
      /\ \E w \in Threads : CancelLock \in th[w].lock

\* ---- C27 ------------------------------------------------------------------
\* C27: the per-result callback is invoked exactly once for every verdict in
\* the list run_suite returns, lifecycle verdicts and synthesized skips
\* alike, each before run_suite returns: from the return on, the number of
\* invocations for a case is the number of its entries in the returned list.
C27_CallbackOncePerVerdict ==
    returned.done =>
      \A c \in Cases : emitted[c] = Cardinality(EntriesOf(returned.list, c))

\* ---- C28 ------------------------------------------------------------------
\* C28: the outcome of the pod metadata lookup never affects the verdict:
\* for the same payload and timeout flag, a run of _result_from_resp under
\* any other behaviour of the lookup (success, error, raise) gives the
\* status and the reason this run gave.
C28_LookupNeverAffectsVerdict ==
    (call.fn = "_result_from_resp" /\ call.called) =>
      \A l \in LookupOutcomes :
        LET other == ResultItemFromRawResp(call.arg.resp, call.arg.timeout, l)
        IN  /\ other.status = call.value.status
            /\ other.reason = call.value.reason

\* a payload was given a pass verdict although the lookup raised, and
\* another pass with the pod's image attached
C28_Witness ==
    /\ call.fn = "_result_from_resp" /\ call.called
    /\ call.arg.lookup = "helper_raises"
    /\ call.value.status = "pass" /\ call.value.image = NoImage
    /\ ResultItemFromRawResp(call.arg.resp, call.arg.timeout, "ok").image = PodImage

\* ---- C29 ------------------------------------------------------------------
\* C29: the pod metadata query is memoized per pod id for the life of the
\* process: over any sequence of lookups by the clients of one process the
\* remote DetailPod operation is called at most once for each pod id, and a
\* later lookup returns what the first one obtained.
C29_OneDetailPodCallPerPod ==
    call.fn = "_get_pod_image_info" =>
      \A p \in PodIds :
        /\ call.value.calls[p] <= 1
        /\ call.value.last[p] = call.value.first[p]

\* ---- C30 ------------------------------------------------------------------
\* the entries of the ScreenShots mapping of the payload drawn
ShotsOf(payload) == DictGet(payload, "ScreenShots").items

\* entry k of the mapping is a mapping whose field f is a string that is not
\* blank, and u is that string stripped
FieldIs(shots, k, f, u) ==
    /\ shots[k][2].type = "dict"
    /\ DictGet(shots[k][2], f).type = "str"
    /\ NonBlank(DictGet(shots[k][2], f).text)
    /\ Strip(DictGet(shots[k][2], f).text) = u

\* entry k carries URL u: in its screenshot field or, when that field is
\* missing or empty, in its original_screenshot field
Carries(shots, k, u) ==
    \/ FieldIs(shots, k, "screenshot", u)
    \/ /\ shots[k][2].type = "dict"
       /\ DictGet(shots[k][2], "screenshot") \in {PyNone, PyStr(<<>>)}
       /\ FieldIs(shots, k, "original_screenshot", u)

\* the first entry that carries u
FirstCarrier(shots, u) ==
    CHOOSE k \in 1..Len(shots) :
      Carries(shots, k, u) /\ \A j \in 1..(k - 1) : ~Carries(shots, j, u)

\* C30: the URLs extracted from a ScreenShots mapping are the non-empty URLs
\* its entries carry (the screenshot field, else the original_screenshot
\* field), each distinct one exactly once, in the order of their first
\* occurrence in the mapping
C30_UrlsOnceInFirstOccurrenceOrder ==
    (call.fn = "screenshot_urls" /\ call.called) =>
      LET shots == ShotsOf(call.arg)
          urls == call.value
      IN  /\ \A i, j \in 1..Len(urls) : urls[i] = urls[j] => i = j
          /\ \A i \in 1..Len(urls) : urls[i] # <<>> /\ \E k \in 1..Len(shots) : Carries(shots, k, urls[i])
          /\ \A k \in 1..Len(shots) :
               \A f \in {"screenshot", "original_screenshot"} :
                 LET u == Strip(DictGet(shots[k][2], f).text)
                 IN  (shots[k][2].type = "dict" /\ DictGet(shots[k][2], f).type = "str"
                        /\ Carries(shots, k, u))
                       => \E i \in 1..Len(urls) : urls[i] = u
          /\ \A i, j \in 1..Len(urls) :
               i < j => FirstCarrier(shots, urls[i]) < FirstCarrier(shots, urls[j])

\* the mapping a, b, a, c has been reduced to a, b, c, and a URL has been
\* taken from an original_screenshot field
C30_Witness ==
    /\ call.fn = "screenshot_urls" /\ call.called
    /\ Len(ShotsOf(call.arg)) = 4
    /\ \A k \in 1..4 :
         FieldIs(ShotsOf(call.arg), k, "screenshot", <<(<<"a", "b", "a", "c">>)[k]>>)
    /\ \E k \in 1..4 :
         DictGet(ShotsOf(call.arg)[k][2], "original_screenshot") = PyStr(<<"b">>)
    /\ call.value = << <<"a">>, <<"b">>, <<"c">> >>

\* ---- C31 ------------------------------------------------------------------
\* this step runs one of the places that set the flag: the signal handler
\* (326), the exit handler (315), run_suite's KeyboardInterrupt handlers
\* (1128, 1167, 1228) or run_one_case's handlers of an interrupt (803, 979)
SetsShutdown ==
    \/ SpawnsSweep
    \/ /\ th'[Main] # th[Main]
       /\ \/ th'[Main].ctx \in {"atexit", "kbi", "baseexc"} /\ th'[Main].ctx # th[Main].ctx
          \/ /\ th[Main].pc = "roc_submit"
             /\ th'[Main].out = SubmitInterruptedVerdict(th[Main].c, Pod(Main))

\* C31: the shutdown flag starts unset, every way of setting it leaves it
\* set whether or not it was set before, and once set it is never cleared
C31_ShutdownWriteOnce ==
    /\ ~shutdown
    /\ [][/\ shutdown => shutdown'
          /\ SetsShutdown => shutdown'
         ]_vars

\* the exit handler has set the flag that a signal had set before
C31_Witness ==
    /\ shutdown
    /\ th[Main].ctx = "atexit"
    /\ th[SweepT].ctx = "sig"

\* ---- C32 ------------------------------------------------------------------
\* the entries of the result list, as the scheduler leaves it, that hold a
\* verdict a lifecycle produced for case c, and those that hold the
\* synthesized one
LifecycleEntries(list, c) == {k \in 1..Len(list) : list[k][1] = c /\ list[k][2] # SynthSkip(c)}
SynthEntries(list, c) == {k \in 1..Len(list) : list[k] = <<c, SynthSkip(c)>>}

\* C32: in every mode, when run_suite returns with the shutdown flag set,
\* each case without a recorded result has got the synthesized verdict skip
\* 'local interruption, not executed', and no case with a recorded result
\* has got a synthesized one.
C32_SynthesizedExactlyWhenMissing ==
    [][(~returned.done /\ returned'.done /\ shutdown') =>
          \A c \in Cases :
              /\ LifecycleEntries(results', c) = {} =>
                    \E k \in 1..Len(returned'.list) : returned'.list[k] = SynthSkip(c)
              /\ LifecycleEntries(results', c) # {} => SynthEntries(results', c) = {}
      ]_vars

\* ---- C33 ------------------------------------------------------------------
\* C33: in parallel mode the scheduler reads, sorts or extends the shared
\* result list (1233-1256) only when every worker thread has terminated, so
\* never while a worker can still append to it.
C33_ReadBackAfterWorkersEnd ==
    [][(/\ mode = "parallel"
        /\ th[Main].pc \in {"p_sort", "p_synth", "p_return"}
        /\ th'[Main].pc \in {"p_synth", "p_return", "returned"})
          => \A t \in 1..npods : th[t].pc = "w_done"
      ]_vars

\* ---- C34 ------------------------------------------------------------------
\* the case files below cases_dir: the regular files named *.md or *.case
CaseFilePaths(entries) ==
    {e.path : e \in {x \in entries : x.is_file /\ MatchesPattern(NameOf(x.path))}}

\* C34: discovery keeps exactly the case files that are not hidden and not
\* the template and whose relative path contains a filter token (all of
\* them without a filter), orders them by path, and numbers them 0..N-1 in
\* that order.
C34_DiscoveryFiltersSortsAndNumbers ==
    (call.fn = "discover_cases" /\ call.called) =>
      LET cases == call.value
          tokens == FilterTokens(call.arg.filter)
      IN  /\ {cases[i].path : i \in 1..Len(cases)} =
               {f \in CaseFilePaths(call.arg.entries) :
                  /\ NameOf(f)[1] # Dot
                  /\ LowerStr(StemOf(NameOf(f))) # TemplateStem
                  /\ tokens = {} \/ \E token \in tokens : Contains(RelOf(f), token)}
          /\ \A i \in 1..Len(cases) : cases[i].index = i - 1
          /\ \A i, j \in 1..Len(cases) : i < j => PathLess(cases[i].path, cases[j].path)

\* a directory with a hidden file, a template and a file the filter does not
\* match has been searched with a filter, and three cases were found, one of
\* them in a subdirectory
C34_Witness ==
    /\ call.fn = "discover_cases" /\ call.called
    /\ FilterTokens(call.arg.filter) # {}
    /\ \E e \in call.arg.entries : e.is_file /\ NameOf(e.path)[1] = Dot
    /\ \E e \in call.arg.entries : StemOf(NameOf(e.path)) = TemplateStem
    /\ \E e \in call.arg.entries :
         /\ e.path \in CaseFilePaths(call.arg.entries)
         /\ \A token \in FilterTokens(call.arg.filter) : ~Contains(RelOf(e.path), token)
    /\ Len(call.value) = 3
    /\ \E i \in 1..3 : Len(call.value[i].path) = 2

\* ---- C35 ------------------------------------------------------------------
\* C35: every lifecycle terminates with a verdict.  An iteration of the poll
\* loop that does not leave the loop has counted one more poll and ended
\* before the deadline, so the loop is left no later than in the first
\* iteration that ends after the deadline; and run_one_case, once entered, is
\* only left by returning the verdict of its case.
C35_LifecycleTerminates ==
    [][\A t \in Runners :
         /\ (th[t].pc = "loop" /\ th'[t] # th[t] /\ th'[t].pc = "loop")
              => /\ th'[t].probe_polls = th[t].probe_polls + 1
                 /\ th'[t].probe_polls < max_polls
         /\ (InRun(th[t]) /\ ~InRun(th'[t]))
              => th'[t].pc = AfterCase /\ th'[t].out.case = th[t].c
      ]_vars

\* ---- C36 ------------------------------------------------------------------
\* thread t returns, in this step, the verdict of a run it submitted, and no
\* cancel has been issued for that run: none has reached the remote and
\* none has been remembered
ReturnsUncancelled(t) ==
    /\ InRun(th[t]) /\ th'[t].pc = AfterCase
    /\ th'[t].out.run_id = th[t].c
    /\ remote'.cancel_calls[th[t].c] = 0
    /\ cache'[th[t].c] = NoResp

\* C36: a lifecycle that returns the verdict of a submitted run without a
\* cancel having been issued for it returns the verdict of a fetched result
\* with a non-zero success code: the remote task is in a terminal state, and
\* no lifecycle leaves a still-running task uncancelled.
C36_UncancelledMeansTerminal ==
    [][\A t \in Runners :
         ReturnsUncancelled(t) =>
           <<th'[t].out.status, th'[t].out.reason>> \in NonZeroCodeVerdicts
      ]_vars

\* ---- C37 ------------------------------------------------------------------
\* the registered run ids of the tasks submitted to pod p
RegisteredOn(p) ==
    {r \in active : \E t \in Workers : call.arg[t] = p /\ th[t].rid = r}

\* C37: at every moment the registry holds at most one run id per pod, and
\* at most as many run ids as there are pods: no worker submits a task to
\* its pod while an earlier run of that pod is registered.
C37_OneRegisteredRunPerPod ==
    call.fn = "worker" =>
      /\ Cardinality(active) <= npods
      /\ \A p \in PodIds : Cardinality(RegisteredOn(p)) <= 1
      /\ \A t \in Workers :
           th[t].pc = "pw_register" => RegisteredOn(call.arg[t]) = {}

\* ---- C38 ------------------------------------------------------------------
\* the positions at which a thread waits for a lock
AcquirePositions == {"lk_start", "lk_get", "lk_rem", "lk_unreg", "lk_snap"}

\* thread t is about to take a lock, or waits for it (for the progress
\* lock it does so when the callback has returned)
WaitsForLock(t) ==
    \/ th[t].pc \in AcquirePositions
    \/ th[t].pc = "lk_done" /\ mode = "parallel" /\ t \in Runners

\* C38: no thread ever holds two of the shared locks (registry, cancel
\* cache, result list, progress), none waits for one while it holds
\* another, and none is inside the per-result callback while it holds one:
\* the locks cannot deadlock.
C38_NoNestedLocks ==
    \A t \in Threads :
        /\ Cardinality(th[t].lock) <= 1
        /\ th[t].lock # {} => ~WaitsForLock(t)
        /\ th[t].pc = "lk_callback" => th[t].lock = {}

\* a worker is inside the callback while another thread holds the progress
\* lock and the sweep thread holds the registry lock
C38_Witness ==
    \E t, u \in Runners :
        /\ t # u
        /\ th[t].pc = "lk_callback"
        /\ ProgressLock \in th[u].lock
        /\ RegistryLock \in th[SweepT].lock

\* ---- C39 ------------------------------------------------------------------
\* thread t, inside a cancel-all sweep, issues the remote cancel of its run
SweepIssuesCancel(t) ==
    /\ th[t].pc = "c_remote" /\ th[t].ctx \in SweepCtxs
    /\ th'[t].pc # "c_remote"
    /\ remote'.cancel_calls[th[t].rid] = remote.cancel_calls[th[t].rid] + 1

\* C39: the cancel-all sweep issues a remote cancel only for a run that is
\* in the registry of active runs at the moment the cancel is issued; a run
\* whose lifecycle has produced its verdict and unregistered is never
\* cancelled by the sweep.
C39_SweepCancelsOnlyRegistered ==
    [][\A t \in {Main, SweepT} : SweepIssuesCancel(t) => th[t].rid \in active]_vars

\* ---- C40 ------------------------------------------------------------------
\* the status and reason _result_from_resp has derived from the timeout
\* flag, the error envelope and the success code when it reaches the
\* self-report inference (case_runner.py:540-600)
DerivedStatusReason ==
    IF infer.timeout THEN TimeoutStatusReason ELSE CodeStatusReason(DecodeResp(infer.resp))

\* C40: the self-report, structured or free-text, can only downgrade a
\* verdict: when the status derived from the timeout flag, the error
\* envelope and the success code is fail or skip, the final status is that
\* status whatever the self-report says, and the final reason is the
\* derived reason unless that is empty.
C40_SelfReportOnlyDowngrades ==
    (infer.called /\ DerivedStatusReason[1] \in {"fail", "skip"})
      => /\ infer.status = DerivedStatusReason[1]
         /\ DerivedStatusReason[2] # "" => infer.reason = DerivedStatusReason[2]

\* a code-5 payload without an envelope whose self-report says fail with a
\* reason of its own, and a code-2 payload whose self-report says pass:
\* the verdict is the derived one
C40_Witness ==
    /\ infer.called /\ ~infer.timeout /\ infer.resp.Error = ""
    /\ \/ /\ PayloadCode = 5 /\ InferenceSays = "fail"
          /\ InferFromResultPayload(infer.resp)[2] # ""
          /\ infer.status = "skip"
       \/ /\ PayloadCode = 2 /\ InferenceSays = "pass"
          /\ infer.status = "fail"
    /\ infer.reason = DerivedStatusReason[2]

====
